---- MODULE Spec2Model ----
(***************************************************************************)
(* A model of aq's core: the side-channel comment/anchor metadata, the     *)
(* format plugins' decode/encode pipelines and the plugin detection.       *)
(* Every area has its own specification (SpecMeta, SpecDetect, ...); the   *)
(* variables of the other areas stay at their idle value.                  *)
(***************************************************************************)
EXTENDS Integers, Sequences, FiniteSets, TLC

VARIABLES heap,    \* SpecMeta: object id -> sequence of own properties
          ct,      \* SpecMeta: replExtensions' global tracker _ct
          nOps,    \* SpecMeta: number of metadata writes made so far
          det,     \* SpecDetect: one detectPlugin call
          uw,      \* SpecUnwrap: one ParsedData and its unwrapping
          js,      \* SpecJson: one JSON decode/encode/decode pipeline
          ini,     \* SpecIni: one INI decode/encode/decode pipeline
          ym,      \* SpecYaml: one YAML comment encode/decode pipeline
          ya,      \* SpecAnchor: one YAML anchor decode/encode pipeline
          dg,      \* SpecDangling: one value given dangling comment entries, and its encoding
          jp,      \* SpecJsonParser: one text and what JsonParser.parse makes of it
          fm,      \* SpecMarker: one findUnquotedMarker call
          yh,      \* SpecYamlHeader: one parsed YAML document, decoded and encoded again
          md,      \* SpecMultiDoc: one multi-document YAML text, decoded, encoded, decoded
          xe,      \* SpecXmlEncode: one XmlPlugin.encode call
          pe,      \* SpecFormat: one parse or encode call of index.ts
          cl,      \* SpecClone: two containers, their comment maps and entries as objects
          jc,      \* SpecJsonComments: one commented JSON text and what parseJson makes of it
          je,      \* SpecJsonEvery: one JSON text with comments between its tokens, and its parse
          ju,      \* SpecJsonUnterminated: a complete JSON text followed by an unclosed block comment, and its parse
          sj,      \* SpecStrip: one input string and stripJsoncComments of it
          xn,      \* SpecXmlDecode: the tree the XML parser returned, then the decoded value
          tq,      \* SpecQueue: the lines of one TOML or INI text, then the comment maps of its decode
          xc,      \* SpecXmlComments: the lines of one XML text, then the records of extractXmlComments
          ro,      \* SpecReadOnly: one value given to a plugin's encode twice in a row
          ao,      \* SpecAliasOrder: a decoded YAML value, edited, then the Document encode builds
          yn,      \* SpecYamlRound: a YAML text, its decode unwrapped, the encode of that value and its decode
          pt       \* SpecPrimitive: the proxy tracker, the slot a primitive was read from, and the metadata after its method call

vars == <<heap, ct, nOps, det, uw, js, ini, ym, ya, dg, jp, fm, yh, md, xe, pe, cl, jc, je, ju, sj, xn, tq, xc, ro, ao, yn, pt>>

\* JavaScript's undefined, and the value of a variable of another area.
Undef == "undefined"
Idle == "idle"

\* Bounds of the model.
MaxOps == 3

(***************************************************************************)
(* 1. Metadata model: comments.ts, anchors.ts, replExtensions.ts           *)
(***************************************************************************)

\* Symbol.for("aq:comments") and Symbol.for("aq:anchors").
COMMENTS == "Symbol(aq:comments)"
ANCHORS == "Symbol(aq:anchors)"

ObjIds == {"o1", "o2"}
SlotKeys == {"#", "a"}
CommentTexts == {"c1"}
AnchorNames == {"x"}

\* CommentEntry { before?, after? } and AnchorEntry { anchor?, alias? }.
CommentEntry == [before : CommentTexts \cup {Undef}, after : CommentTexts \cup {Undef}]
AnchorEntry == [anchor : AnchorNames \cup {Undef}, alias : AnchorNames \cup {Undef}]

EmptyMap == [k \in {} |-> Undef]
MapSet(m, k, e) == [x \in DOMAIN m \cup {k} |-> IF x = k THEN e ELSE m[x]]
MapHas(m, k) == k \in DOMAIN m

\* One own property of an object: a string or symbol key, its enumerable
\* attribute and its value.
Prop(k, sym, en, v) == [key |-> k, symbol |-> sym, enumerable |-> en, value |-> v]

\* o1 = { a: 1, c: o2 }, o2 = [ 1 ]
InitHeap ==
  [o \in ObjIds |->
     IF o = "o1" THEN <<Prop("a", FALSE, TRUE, "1"), Prop("c", FALSE, TRUE, "o2")>>
     ELSE <<Prop("0", FALSE, TRUE, "1")>>]

HasOwn(h, o, k) == \E i \in 1..Len(h[o]) : h[o][i].key = k
GetOwn(h, o, k) == LET i == CHOOSE j \in 1..Len(h[o]) : h[o][j].key = k IN h[o][i].value

\* Object.defineProperty(obj, key, { value, enumerable, ... }): redefines the
\* property in place when obj has it, appends it otherwise.
DefineProperty(h, o, p) ==
  [h EXCEPT ![o] =
     IF HasOwn(h, o, p.key)
     THEN [i \in 1..Len(h[o]) |-> IF h[o][i].key = p.key THEN p ELSE h[o][i]]
     ELSE Append(h[o], p)]

\* What plain code observes of an object: own enumerable string-keyed
\* properties, in property order.
EnumerableProps(h, o) == SelectSeq(h[o], LAMBDA p : ~p.symbol /\ p.enumerable)
ObjectKeys(h, o) == [i \in 1..Len(EnumerableProps(h, o)) |-> EnumerableProps(h, o)[i].key]
ObjectEntries(h, o) ==
  [i \in 1..Len(EnumerableProps(h, o)) |->
     <<EnumerableProps(h, o)[i].key, EnumerableProps(h, o)[i].value>>]
ForIn(h, o) == ObjectKeys(h, o)
JSONStringify(h, o) == ObjectEntries(h, o)

hasComments(h, o) == o \in ObjIds /\ HasOwn(h, o, COMMENTS)
\* getComments / getComment: the map, and one entry of it; hasComment tells
\* whether getComment is defined (the code returns undefined otherwise).
getComments(h, o) == IF hasComments(h, o) THEN GetOwn(h, o, COMMENTS) ELSE EmptyMap
hasComment(h, o, k) == hasComments(h, o) /\ MapHas(getComments(h, o), k)
getComment(h, o, k) == getComments(h, o)[k]

\* A plausible slip: the map stored as an ordinary (enumerable string) field.
setCommentsAsField(h, o, map) == DefineProperty(h, o, Prop("__comments", FALSE, TRUE, map))
setComments(h, o, map) == DefineProperty(h, o, Prop(COMMENTS, TRUE, FALSE, map))

setComment(h, o, k, e) ==
  LET h1 == IF hasComments(h, o) THEN h ELSE setComments(h, o, EmptyMap)
  IN  setComments(h1, o, MapSet(getComments(h1, o), k, e))

cloneComments(h, s, t) ==
  IF hasComments(h, s) THEN setComments(h, t, getComments(h, s)) ELSE h

hasAnchors(h, o) == o \in ObjIds /\ HasOwn(h, o, ANCHORS)
getAnchors(h, o) == IF hasAnchors(h, o) THEN GetOwn(h, o, ANCHORS) ELSE EmptyMap
hasAnchor(h, o, k) == hasAnchors(h, o) /\ MapHas(getAnchors(h, o), k)
getAnchor(h, o, k) == getAnchors(h, o)[k]

setAnchor(h, o, k, e) ==
  LET h1 == IF hasAnchors(h, o)
            THEN h
            ELSE DefineProperty(h, o, Prop(ANCHORS, TRUE, FALSE, EmptyMap))
  IN  DefineProperty(h1, o, Prop(ANCHORS, TRUE, FALSE, MapSet(getAnchors(h1, o), k, e)))

\* getAnchor(p, k) ?? {}
ExistingAnchor(h, p, k) ==
  IF hasAnchor(h, p, k) THEN getAnchor(h, p, k) ELSE [anchor |-> Undef, alias |-> Undef]

\* tracked(...).anchor(name) and _primitiveAnchor(name) on slot (p, k).
trackedAnchor(h, p, k, name) ==
  setAnchor(h, p, k, [ExistingAnchor(h, p, k) EXCEPT !.anchor = name, !.alias = Undef])
\* tracked(...).alias(name) and _primitiveAlias(name) on slot (p, k).
trackedAlias(h, p, k, name) ==
  setAnchor(h, p, k, [ExistingAnchor(h, p, k) EXCEPT !.alias = name, !.anchor = Undef])

NoTracker == [parent |-> Undef, key |-> Undef]

InitMeta ==
  /\ heap = InitHeap
  /\ ct = NoTracker
  /\ nOps = 0
  /\ det = Idle /\ uw = Idle /\ js = Idle /\ ini = Idle /\ ym = Idle /\ ya = Idle
  /\ dg = Idle /\ jp = Idle /\ fm = Idle /\ yh = Idle /\ md = Idle /\ xe = Idle
  /\ pe = Idle /\ cl = Idle /\ jc = Idle /\ je = Idle /\ ju = Idle /\ sj = Idle
  /\ xn = Idle /\ tq = Idle /\ xc = Idle /\ ro = Idle /\ ao = Idle /\ yn = Idle
  /\ pt = Idle

OtherThanMeta == <<det, uw, js, ini, ym, ya, dg, jp, fm, yh, md, xe, pe, cl, jc, je, ju, sj, xn, tq, xc, ro, ao, yn, pt>>

DoSetComments ==
  /\ nOps < MaxOps
  /\ \E o \in ObjIds, k \in SlotKeys, e \in CommentEntry, empty \in BOOLEAN :
       heap' = setComments(heap, o, IF empty THEN EmptyMap ELSE MapSet(EmptyMap, k, e))
  /\ nOps' = nOps + 1
  /\ UNCHANGED <<ct, OtherThanMeta>>

DoSetComment ==
  /\ nOps < MaxOps
  /\ \E o \in ObjIds, k \in SlotKeys, e \in CommentEntry : heap' = setComment(heap, o, k, e)
  /\ nOps' = nOps + 1
  /\ UNCHANGED <<ct, OtherThanMeta>>

DoCloneComments ==
  /\ nOps < MaxOps
  /\ \E s \in ObjIds \cup {Undef}, t \in ObjIds : heap' = cloneComments(heap, s, t)
  /\ nOps' = nOps + 1
  /\ UNCHANGED <<ct, OtherThanMeta>>

DoSetAnchor ==
  /\ nOps < MaxOps
  /\ \E o \in ObjIds, k \in SlotKeys \ {"#"}, e \in AnchorEntry : heap' = setAnchor(heap, o, k, e)
  /\ nOps' = nOps + 1
  /\ UNCHANGED <<ct, OtherThanMeta>>

\* The proxy's get trap for a string key: records (target, prop) in _ct.
TrackedGet ==
  /\ \E o \in ObjIds : \E i \in 1..Len(heap[o]) :
       /\ ~heap[o][i].symbol
       /\ ct' = [parent |-> o, key |-> heap[o][i].key]
  /\ UNCHANGED <<heap, nOps, OtherThanMeta>>

\* .anchor(name) / .alias(name) on the primitive read last through a proxy.
DoPrimitiveAnchor ==
  /\ nOps < MaxOps
  /\ ct.parent # Undef /\ ct.key # Undef
  /\ \E name \in AnchorNames, alias \in BOOLEAN :
       heap' = IF alias THEN trackedAlias(heap, ct.parent, ct.key, name)
               ELSE trackedAnchor(heap, ct.parent, ct.key, name)
  /\ nOps' = nOps + 1
  /\ UNCHANGED <<ct, OtherThanMeta>>

\* .anchor(name) / .alias(name) on the proxy of the object held in slot (p, k).
DoProxyAnchor ==
  /\ nOps < MaxOps
  /\ \E p \in ObjIds, name \in AnchorNames, alias \in BOOLEAN : \E i \in 1..Len(heap[p]) :
       /\ ~heap[p][i].symbol /\ heap[p][i].value \in ObjIds
       /\ heap' = IF alias THEN trackedAlias(heap, p, heap[p][i].key, name)
                  ELSE trackedAnchor(heap, p, heap[p][i].key, name)
  /\ nOps' = nOps + 1
  /\ UNCHANGED <<ct, OtherThanMeta>>

NextMeta ==
  \/ DoSetComments
  \/ DoSetComment
  \/ DoCloneComments
  \/ DoSetAnchor
  \/ TrackedGet
  \/ DoPrimitiveAnchor
  \/ DoProxyAnchor

SpecMeta == InitMeta /\ [][NextMeta]_vars

\* C1: whatever metadata writes were made, Object.keys, for-in, Object.entries
\* and JSON.stringify observe on every object exactly what they observed
\* before the writes: the comment and anchor maps are never a field.
C1_MetadataInvisible ==
  \A o \in ObjIds :
    /\ ObjectKeys(heap, o) = ObjectKeys(InitHeap, o)
    /\ ForIn(heap, o) = ForIn(InitHeap, o)
    /\ ObjectEntries(heap, o) = ObjectEntries(InitHeap, o)
    /\ JSONStringify(heap, o) = JSONStringify(InitHeap, o)

\* An object carrying both a comment map with entries and an anchor map.
C1_Witness ==
  /\ hasComment(heap, "o1", "a")
  /\ hasAnchor(heap, "o1", "a")
  /\ hasComments(heap, "o2")

\* C10: no slot's AnchorEntry ever has both anchor and alias defined.
C10_AnchorAliasExclusive ==
  \A o \in ObjIds : \A k \in SlotKeys :
    hasAnchor(heap, o, k) =>
      ~(getAnchor(heap, o, k).anchor # Undef /\ getAnchor(heap, o, k).alias # Undef)

(***************************************************************************)
(* 2. Plugin registry and format detection: index.ts, utils.ts             *)
(***************************************************************************)

MaxLines == 2

\* The registered plugins, in registration order.
Plugins == <<"JSON", "YAML", "XML", "TOML", "INI", "TEXT", "PLAINTEXT">>
PluginNames == {Plugins[i] : i \in 1..Len(Plugins)}
\* The plugins whose decode rests on the text alone.
ContentPlugins == {"JSON", "YAML", "XML", "TOML", "INI"}

\* File names, and filename.toLowerCase()'s extension for each.
Filenames == {Undef, "a.json", "A.YML", "a.txt", "a.log", "a.conf"}
LowerExt(f) ==
  CASE f = "a.json" -> "json"
    [] f = "A.YML" -> "yml"
    [] f = "a.txt" -> "txt"
    [] f = "a.log" -> "log"
    [] OTHER -> "conf"

\* plugin.detect(filename, content): every plugin looks at the extension only.
detect(p, f) ==
  /\ f # Undef
  /\ CASE p = "JSON" -> LowerExt(f) \in {"json", "jsonc"}
       [] p = "YAML" -> LowerExt(f) \in {"yaml", "yml"}
       [] p = "XML" -> LowerExt(f) \in {"xml", "xhtml", "rss", "atom", "svg", "xul", "wsdl",
                                       "xop", "xsd", "xslt", "xforms", "xmlschema",
                                       "xmlns", "xmlrpc", "xmltv", "xquery", "xsl", "xmi"}
       [] p = "TOML" -> LowerExt(f) \in {"toml", "tml"}
       [] p = "INI" -> LowerExt(f) \in {"ini", "cfg"}
       [] p = "TEXT" -> LowerExt(f) \in {"txt", "log"}
       [] p = "PLAINTEXT" -> LowerExt(f) \in {"txt", "log"}

\* An input text is the sequence of its lines, each line one of these shapes
\* (no leading blanks):
\*   lbrace    {"a": 1}        section   [server]       angle   <a>1</a>
\*   dashes    ---             keycolon  name: John     keyeq   port = 8080
LineKinds == {"lbrace", "section", "angle", "dashes", "keycolon", "keyeq"}
Texts(maxLines) == UNION {[1..n -> LineKinds] : n \in 1..maxLines}
EmptyText == <<>>

\* sniffFormat(input): the tests in the order the code makes them.
sniffFormat(t) ==
  IF t = EmptyText THEN Undef
  ELSE IF t[1] \in {"lbrace", "section"} THEN "JSON"      \* startsWith("{") || startsWith("[")
  ELSE IF t[1] = "angle" THEN "XML"                        \* startsWith("<")
  ELSE IF t[1] = "dashes" \/ (\E i \in 1..Len(t) : t[i] = "keycolon") THEN "YAML"
  ELSE IF \E i \in 1..Len(t) : t[i] = "section" THEN "TOML"
  ELSE Undef

\* Whether plugin.decode(input, parameters) returns. TEXT and PLAINTEXT look at
\* parameters.inputFormat only; for the other plugins the call's accepts set
\* says which decoders take this text.
decodeOK(p, d) ==
  CASE p = "TEXT" -> d.inputFormat = "text"
    [] p = "PLAINTEXT" -> d.inputFormat = "plaintext"
    [] OTHER -> p \in d.accepts


\* Lines 75-82: the brute-force filter over every plugin.
bruteForceFirstOnly(d) ==
  LET all == SelectSeq(Plugins, LAMBDA p : decodeOK(p, d))
  IN  IF Len(all) > 0 THEN <<all[1]>> ELSE all
bruteForce(d) == SelectSeq(Plugins, LAMBDA p : decodeOK(p, d))

\* Lines 85-91: one plugin found is returned; several are logged and nothing
\* is returned; none returns undefined.
resolveFoundFirst(found) ==
  IF Len(found) >= 1 THEN [plugin |-> found[1], logged |-> <<>>]
  ELSE [plugin |-> Undef, logged |-> <<>>]
resolveFound(found) ==
  IF Len(found) = 1 THEN [plugin |-> found[1], logged |-> <<>>]
  ELSE IF Len(found) > 1 THEN [plugin |-> Undef, logged |-> found]
  ELSE [plugin |-> Undef, logged |-> <<>>]

\* `input` is truthy: given and not the empty string.
Truthy(d) == d.hasInput /\ d.input # EmptyText

byFilename(d) == SelectSeq(Plugins, LAMBDA p : detect(p, d.filename))

detectPlugin(d) ==
  LET found0 == byFilename(d)
      content == Len(found0) = 0 /\ Truthy(d)
      sniffed == IF content THEN sniffFormat(d.input) ELSE Undef
      \* plugins.find(name === sniffed): every sniffed name is registered
      sniffOK == sniffed # Undef /\ sniffed \in PluginNames /\ decodeOK(sniffed, d)
      r == IF sniffOK THEN [plugin |-> sniffed, logged |-> <<>>]
           ELSE resolveFound(IF content THEN bruteForce(d) ELSE found0)
  IN  [plugin |-> r.plugin, logged |-> r.logged, content |-> content,
       sniffed |-> sniffed, sniffOK |-> sniffOK, brute |-> content /\ ~sniffOK]

\* The calls considered: any file name, no input / the empty string / a text,
\* any parameters.inputFormat, and any set of content decoders taking the
\* text. The empty string is a YAML stream (decoded to one null document) and
\* a TOML document, and neither JSON nor INI.
DetectCalls(maxLines) ==
  {d \in [filename : Filenames, hasInput : BOOLEAN, input : Texts(maxLines) \cup {EmptyText},
          inputFormat : {"", "text"}, accepts : SUBSET ContentPlugins] :
     /\ ~d.hasInput => (d.input = EmptyText /\ d.accepts = {})
     /\ (d.hasInput /\ d.input = EmptyText) =>
          ({"YAML", "TOML"} \subseteq d.accepts /\ d.accepts \cap {"JSON", "INI"} = {})}

OtherThanDetect == <<heap, ct, nOps, uw, js, ini, ym, ya, dg, jp, fm, yh, md, xe, pe, cl, jc, je, ju, sj, xn, tq, xc, ro, ao, yn, pt>>

InitDetect ==
  /\ \E d \in DetectCalls(MaxLines) : det = [pc |-> "call", call |-> d]
  /\ heap = Idle /\ ct = Idle /\ nOps = Idle
  /\ uw = Idle /\ js = Idle /\ ini = Idle /\ ym = Idle /\ ya = Idle /\ dg = Idle
  /\ jp = Idle /\ fm = Idle /\ yh = Idle /\ md = Idle /\ xe = Idle /\ pe = Idle
  /\ cl = Idle /\ jc = Idle /\ je = Idle /\ ju = Idle /\ sj = Idle /\ xn = Idle
  /\ tq = Idle /\ xc = Idle /\ ro = Idle /\ ao = Idle /\ yn = Idle /\ pt = Idle

Detect ==
  /\ det.pc = "call"
  /\ det' = [pc |-> "done", call |-> det.call, res |-> detectPlugin(det.call)]
  /\ UNCHANGED OtherThanDetect

NextDetect == Detect

SpecDetect == InitDetect /\ [][NextDetect]_vars

NameMatches(d) == {p \in PluginNames : detect(p, d.filename)}
Decoders(d) == {p \in PluginNames : d.hasInput /\ decodeOK(p, d)}

\* C5 as stated: with a file name given, P is returned if and only if P is
\* the only plugin whose detect accepts the file name.
C5_FilenameOnlyAsStated ==
  (det.pc = "done" /\ det.call.filename # Undef) =>
    \A p \in PluginNames : (det.res.plugin = p) <=> (NameMatches(det.call) = {p})

\* C5 amended: when at least one plugin's detect accepts the file name, P is
\* returned if and only if P is the only such plugin; when several accept it
\* the candidates are logged, no plugin is returned and no decode is tried.
C5_FilenameMatch ==
  (det.pc = "done" /\ NameMatches(det.call) # {}) =>
    /\ \A p \in PluginNames : (det.res.plugin = p) <=> (NameMatches(det.call) = {p})
    /\ ~det.res.content /\ ~det.res.brute /\ det.res.sniffed = Undef
    /\ Cardinality(NameMatches(det.call)) >= 2 =>
         /\ det.res.plugin = Undef
         /\ {det.res.logged[i] : i \in 1..Len(det.res.logged)} = NameMatches(det.call)

\* a.txt with a text that a content decoder would take: TEXT and PLAINTEXT
\* both claim the name.
C5_Witness ==
  /\ det.pc = "done"
  /\ det.call.filename = "a.txt" /\ Truthy(det.call) /\ det.call.accepts # {}
  /\ det.res.logged = <<"TEXT", "PLAINTEXT">>

\* C6: with no file-name match and no successful sniff, P is returned if and
\* only if P is the only plugin whose decode takes the input; with none or
\* several, no plugin is returned.
C6_BruteForceUnique ==
  (det.pc = "done" /\ NameMatches(det.call) = {} /\ ~det.res.sniffOK) =>
    /\ \A p \in PluginNames : (det.res.plugin = p) <=> (Decoders(det.call) = {p})
    /\ Cardinality(Decoders(det.call)) # 1 => det.res.plugin = Undef

\* The sniffed plugin (JSON, for a leading bracket) rejects the text and TOML
\* alone takes it.
C6_Witness ==
  /\ det.pc = "done" /\ det.res.brute /\ det.res.sniffed = "JSON"
  /\ Decoders(det.call) = {"TOML"} /\ det.res.plugin = "TOML"

\* The format the structural signature of a text stands for.
Signature(t) ==
  IF t[1] = "lbrace" THEN "JSON"
  ELSE IF t[1] = "angle" THEN "XML"
  ELSE IF t[1] = "section" THEN "TOML"
  ELSE IF t[1] = "dashes" \/ (\E i \in 1..Len(t) : t[i] = "keycolon") THEN "YAML"
  ELSE IF \E i \in 1..Len(t) : t[i] = "section" THEN "TOML"
  ELSE Undef

\* C7: with no file-name match the text is sniffed by its signature, a text
\* beginning with a [section] header as TOML, and the sniffed plugin is
\* returned exactly when its trial decode succeeds.
C7_SniffBySignature ==
  (det.pc = "done" /\ det.res.content) =>
    /\ det.res.sniffed = Signature(det.call.input)
    /\ det.res.sniffed # Undef =>
         ((det.res.plugin = det.res.sniffed) <=> decodeOK(det.res.sniffed, det.call))

(***************************************************************************)
(* 3. ParsedData and unwrapParsedData: ParsedData.ts, utils.ts             *)
(***************************************************************************)

MaxDocs == 3

DocValues == {"d1", "d2", "d3"}
DocLists(maxDocs) == UNION {[1..n -> DocValues] : n \in 0..maxDocs}

\* new ParsedData(documents, options): options?.isMultiDocument ?? length > 1
ParsedData(documents, optGiven, optMulti) ==
  [documents |-> documents,
   isMultiDocument |-> IF optGiven THEN optMulti ELSE Len(documents) > 1]

\* unwrapParsedData([pd]): one ParsedData, so the mapped value itself.
unwrapParsedData(pd) ==
  IF Len(pd.documents) = 1
  THEN [array |-> FALSE, docs |-> <<pd.documents[1]>>]
  ELSE [array |-> TRUE, docs |-> pd.documents]

OtherThanUnwrap == <<heap, ct, nOps, det, js, ini, ym, ya, dg, jp, fm, yh, md, xe, pe, cl, jc, je, ju, sj, xn, tq, xc, ro, ao, yn, pt>>

InitUnwrap ==
  /\ uw = [pc |-> "start"]
  /\ heap = Idle /\ ct = Idle /\ nOps = Idle
  /\ det = Idle /\ js = Idle /\ ini = Idle /\ ym = Idle /\ ya = Idle /\ dg = Idle
  /\ jp = Idle /\ fm = Idle /\ yh = Idle /\ md = Idle /\ xe = Idle /\ pe = Idle
  /\ cl = Idle /\ jc = Idle /\ je = Idle /\ ju = Idle /\ sj = Idle /\ xn = Idle
  /\ tq = Idle /\ xc = Idle /\ ro = Idle /\ ao = Idle /\ yn = Idle /\ pt = Idle

\* A caller constructs a ParsedData of at least one document, with or without
\* the isMultiDocument option.
NewParsedData ==
  /\ uw.pc = "start"
  /\ \E docs \in DocLists(MaxDocs), given \in BOOLEAN, multi \in BOOLEAN :
       /\ Len(docs) >= 1
       /\ (~given => ~multi)
       /\ uw' = [pc |-> "parsed", pd |-> ParsedData(docs, given, multi), by |-> "caller"]
  /\ UNCHANGED OtherThanUnwrap

\* YamlPlugin.decode: one document per YAML document (one null document for an
\* empty stream), isMultiDocument: docs.length > 1.
YamlDecodeParsedData ==
  /\ uw.pc = "start"
  /\ \E docs \in DocLists(MaxDocs) :
       /\ Len(docs) >= 1
       /\ uw' = [pc |-> "parsed", pd |-> ParsedData(docs, TRUE, Len(docs) > 1), by |-> "YAML"]
  /\ UNCHANGED OtherThanUnwrap

\* The other plugins: new ParsedData([parsed], { sourceFormat }).
SingleDecodeParsedData ==
  /\ uw.pc = "start"
  /\ \E d \in DocValues :
       uw' = [pc |-> "parsed", pd |-> ParsedData(<<d>>, FALSE, FALSE), by |-> "single"]
  /\ UNCHANGED OtherThanUnwrap

Unwrap ==
  /\ uw.pc = "parsed"
  /\ uw' = [pc |-> "unwrapped", pd |-> uw.pd, by |-> uw.by, res |-> unwrapParsedData(uw.pd)]
  /\ UNCHANGED OtherThanUnwrap

NextUnwrap ==
  \/ NewParsedData
  \/ YamlDecodeParsedData
  \/ SingleDecodeParsedData
  \/ Unwrap

SpecUnwrap == InitUnwrap /\ [][NextUnwrap]_vars

\* C8: unwrapping one ParsedData gives the array of all its documents if and
\* only if its isMultiDocument is true, and its one document otherwise.
C8_UnwrapByFlag ==
  uw.pc = "unwrapped" =>
    /\ uw.res.array <=> uw.pd.isMultiDocument
    /\ uw.res.array => uw.res.docs = uw.pd.documents
    /\ ~uw.res.array => uw.res.docs = <<uw.pd.documents[1]>>

(***************************************************************************)
(* 4. INI plugin: parseIni, stringifyIni, IniPlugin.decode                 *)
(***************************************************************************)

MaxIniLines == 5

IniCommentTexts == {"c1", "c2"}
IniSections == {"s"}
IniKeys == {"k"}
IniValues == {"v"}

\* A line of an INI text, trimmed:
\*   ; c1      [s]      k=v      (blank)      hello (no "=", not an INI line)
IniLine(kind, name, value) == [kind |-> kind, name |-> name, value |-> value]
IniLineSet ==
  {IniLine("comment", c, "") : c \in IniCommentTexts}
    \cup {IniLine("section", n, "") : n \in IniSections}
    \cup {IniLine("kv", k, v) : k \in IniKeys, v \in IniValues}
    \cup {IniLine("blank", "", ""), IniLine("junk", "", "")}
IniTexts(maxLines) == UNION {[1..n -> IniLineSet] : n \in 1..maxLines}

\* The containers of a parsed INI value: the root object and its sections.
IniRoot == "#root"
IniObject == "[object]"
IniContainers == {IniRoot} \cup IniSections

\* A comment text is the sequence of its "\n"-joined lines; <<>> is undefined.
IniNoEntry == [before |-> <<>>, after |-> <<>>]
IniNoComments == [c \in IniContainers |-> [has |-> FALSE, map |-> EmptyMap]]

ObjHas(ents, k) == \E i \in 1..Len(ents) : ents[i].key = k
ObjGet(ents, k) == LET i == CHOOSE j \in 1..Len(ents) : ents[j].key = k IN ents[i].value
\* obj[k] = v: in place when the key exists, appended otherwise.
ObjSet(ents, k, v) ==
  IF ObjHas(ents, k)
  THEN [i \in 1..Len(ents) |-> IF ents[i].key = k THEN [key |-> k, value |-> v] ELSE ents[i]]
  ELSE Append(ents, [key |-> k, value |-> v])

\* setComment / getComment on a container of the INI value.
IniSetComment(cm, c, k, e) == [cm EXCEPT ![c] = [has |-> TRUE, map |-> MapSet(@.map, k, e)]]
IniGetComment(cm, c, k) == IF cm[c].has /\ MapHas(cm[c].map, k) THEN cm[c].map[k] ELSE IniNoEntry

IniStart ==
  [root |-> <<>>, sections |-> [n \in IniSections |-> <<>>], cm |-> IniNoComments,
   cur |-> IniRoot, pending |-> <<>>, headerDone |-> FALSE]

\* One iteration of parseIni's loop (lines 20-74).
parseIniLine(st, l) ==
  CASE l.kind = "comment" -> [st EXCEPT !.pending = Append(@, l.name)]
    [] l.kind = "section" ->
         LET fresh == ~(ObjHas(st.root, l.name) /\ ObjGet(st.root, l.name) = IniObject)
             cm1 == IF st.pending = <<>> THEN st.cm
                    ELSE IF ~st.headerDone
                    THEN IniSetComment(st.cm, IniRoot, "#", [before |-> st.pending, after |-> <<>>])
                    ELSE IniSetComment(st.cm, IniRoot, l.name, [before |-> st.pending, after |-> <<>>])
         IN  [st EXCEPT !.root = IF fresh THEN ObjSet(@, l.name, IniObject) ELSE @,
                        !.sections = IF fresh THEN [@ EXCEPT ![l.name] = <<>>] ELSE @,
                        !.cm = cm1,
                        !.cur = l.name, !.pending = <<>>, !.headerDone = TRUE]
    [] l.kind = "kv" ->
         LET toHeader == st.pending # <<>> /\ ~st.headerDone
             toKey == st.pending # <<>> /\ st.headerDone
             cm1 == IF toHeader
                    THEN IniSetComment(st.cm, IniRoot, "#", [before |-> st.pending, after |-> <<>>])
                    ELSE IF toKey
                    THEN IniSetComment(st.cm, st.cur, l.name, [before |-> st.pending, after |-> <<>>])
                    ELSE st.cm
         IN  [st EXCEPT !.root = IF st.cur = IniRoot THEN ObjSet(@, l.name, l.value) ELSE @,
                        !.sections = IF st.cur = IniRoot THEN @
                                     ELSE [@ EXCEPT ![st.cur] = ObjSet(@, l.name, l.value)],
                        !.cm = cm1, !.pending = <<>>, !.headerDone = TRUE]
    [] OTHER -> st

RECURSIVE parseIniLoop(_, _, _)
parseIniLoop(st, text, i) ==
  IF i > Len(text) THEN st ELSE parseIniLoop(parseIniLine(st, text[i]), text, i + 1)

parseIni(text) ==
  LET st == parseIniLoop(IniStart, text, 1)
      cm1 == IF st.pending = <<>> THEN st.cm
             ELSE IniSetComment(st.cm, IniRoot, "#",
                    [IniGetComment(st.cm, IniRoot, "#") EXCEPT !.after = st.pending])
  IN  [root |-> st.root, sections |-> st.sections, cm |-> cm1]

\* for (const cl of text.split("\n")) lines.push(`; ${cl}`)
IniCommentLines(text) == [i \in 1..Len(text) |-> IniLine("comment", text[i], "")]

RECURSIVE IniFlatten(_)
IniFlatten(seqs) == IF seqs = <<>> THEN <<>> ELSE Head(seqs) \o IniFlatten(Tail(seqs))

\* The lines pushed for one key of container c (lines 109-118 and 134-143).
\* No entry made by parseIni for a key has an `after`, so the key's line is
\* always `k=v`.
stringifyIniKey(v, commented, c, e) ==
  (IF commented THEN IniCommentLines(IniGetComment(v.cm, c, e.key).before) ELSE <<>>)
    \o <<IniLine("kv", e.key, e.value)>>

\* The lines pushed for one section (lines 123-144).
stringifyIniSection(v, commented, e) ==
  (IF commented /\ IniGetComment(v.cm, IniRoot, e.key).before # <<>>
   THEN <<IniLine("blank", "", "")>> \o IniCommentLines(IniGetComment(v.cm, IniRoot, e.key).before)
   ELSE <<>>)
    \o <<IniLine("section", e.key, "")>>
    \o IniFlatten([i \in 1..Len(v.sections[e.key]) |->
                     stringifyIniKey(v, commented, e.key, v.sections[e.key][i])])

stringifyIni(v) ==
  LET commented == v.cm[IniRoot].has          \* hasComments(data): the root only
      globals == SelectSeq(v.root, LAMBDA e : e.value # IniObject)
      sections == SelectSeq(v.root, LAMBDA e : e.value = IniObject)
  IN  (IF commented THEN IniCommentLines(IniGetComment(v.cm, IniRoot, "#").before) ELSE <<>>)
        \o IniFlatten([i \in 1..Len(globals) |-> stringifyIniKey(v, commented, IniRoot, globals[i])])
        \o IniFlatten([i \in 1..Len(sections) |-> stringifyIniSection(v, commented, sections[i])])
        \o (IF commented THEN IniCommentLines(IniGetComment(v.cm, IniRoot, "#").after) ELSE <<>>)

\* The gate with a strict comparison (exactly 80% rejected).
IniCompliantAbove(text) ==
  LET nonEmpty == SelectSeq(text, LAMBDA l : l.kind # "blank")
      compliant == SelectSeq(nonEmpty, LAMBDA l : l.kind # "junk")
  IN  Len(nonEmpty) > 0 /\ Len(compliant) * 100 > 80 * Len(nonEmpty)

\* IniPlugin.decode's gate: at least 80% of the non-blank lines are INI lines.
IniCompliant(text) ==
  LET nonEmpty == SelectSeq(text, LAMBDA l : l.kind # "blank")
      compliant == SelectSeq(nonEmpty, LAMBDA l : l.kind # "junk")
  IN  Len(nonEmpty) > 0 /\ Len(compliant) * 100 >= 80 * Len(nonEmpty)

OtherThanIni == <<heap, ct, nOps, det, uw, js, ym, ya, dg, jp, fm, yh, md, xe, pe, cl, jc, je, ju, sj, xn, tq, xc, ro, ao, yn, pt>>

InitIni ==
  /\ \E t \in IniTexts(MaxIniLines) : ini = [pc |-> "text", text |-> t]
  /\ heap = Idle /\ ct = Idle /\ nOps = Idle
  /\ det = Idle /\ uw = Idle /\ js = Idle /\ ym = Idle /\ ya = Idle /\ dg = Idle
  /\ jp = Idle /\ fm = Idle /\ yh = Idle /\ md = Idle /\ xe = Idle /\ pe = Idle
  /\ cl = Idle /\ jc = Idle /\ je = Idle /\ ju = Idle /\ sj = Idle /\ xn = Idle
  /\ tq = Idle /\ xc = Idle /\ ro = Idle /\ ao = Idle /\ yn = Idle /\ pt = Idle

\* IniPlugin.decode(text)
IniDecode ==
  /\ ini.pc = "text"
  /\ ini' = IF IniCompliant(ini.text)
            THEN [pc |-> "decoded", text |-> ini.text, d1 |-> parseIni(ini.text)]
            ELSE [pc |-> "rejected", text |-> ini.text]
  /\ UNCHANGED OtherThanIni

\* IniPlugin.encode(decoded)
IniEncode ==
  /\ ini.pc = "decoded"
  /\ ini' = [pc |-> "encoded", text |-> ini.text, d1 |-> ini.d1, out |-> stringifyIni(ini.d1)]
  /\ UNCHANGED OtherThanIni

\* IniPlugin.decode(encoded)
IniDecodeAgain ==
  /\ ini.pc = "encoded"
  /\ ini' = IF IniCompliant(ini.out)
            THEN [pc |-> "done", text |-> ini.text, d1 |-> ini.d1, out |-> ini.out,
                  d2 |-> parseIni(ini.out)]
            ELSE [pc |-> "failed", text |-> ini.text, d1 |-> ini.d1, out |-> ini.out]
  /\ UNCHANGED OtherThanIni

NextIni ==
  \/ IniDecode
  \/ IniEncode
  \/ IniDecodeAgain

SpecIni == InitIni /\ [][NextIni]_vars

\* C4: for every text INI decode accepts, decoding the encoded decode succeeds
\* and gives the same global keys, sections and values and the same comment
\* maps as the first decode, whether or not the root carries a comment.
C4_IniRoundTrip ==
  ini.pc \in {"done", "failed"} => (ini.pc = "done" /\ ini.d2 = ini.d1)

(***************************************************************************)
(* 5. JSON plugin: parseJson, JSON.stringify, reinsertCommentsDeep         *)
(***************************************************************************)

MaxJsonKeys == 2
MaxJsonComments == 2

\* A JSON document here is an object whose values are the scalar 1 or an
\* object of scalars: the root and its direct children are the two levels
\* reinsertCommentsDeep visits.
JsonRootKeys == {"a", "b"}
JsonChildKeys == {"a", "x"}
JsonScalar == "1"
JsonObject == "{}"
JsonRoot == "/"
JsonContainers == {JsonRoot} \cup JsonRootKeys

\* The text of one comment line is a sequence of atoms: <<"c1">> is `c1` and
\* <<"c1", "c2">> is `c1  // c2`. A comment is the sequence of its lines
\* ("\n"-joined in the code); <<>> is undefined.
JsonAtom(n) == CASE n = 1 -> "c1" [] n = 2 -> "c2" [] n = 3 -> "c3" [] OTHER -> "c4"
JsonNoEntry == [before |-> <<>>, after |-> <<>>]
JsonNoComments == [c \in JsonContainers |-> [has |-> FALSE, map |-> EmptyMap]]
JsonSetComment(cm, c, k, e) == [cm EXCEPT ![c] = [has |-> TRUE, map |-> MapSet(@.map, k, e)]]
JsonGetComment(cm, c, k) ==
  IF cm[c].has /\ MapHas(cm[c].map, k) THEN cm[c].map[k] ELSE JsonNoEntry

\* A line of a pretty-printed JSONC text:
\*   open     {                    close    }  or  },
\*   key      "k": 1  or  "k": 1,  keyopen  "k": {
\*   comment  // text
\* each of the first four possibly followed by `  // inline`.
JsonLine(kind, key, value, comma, inline) ==
  [kind |-> kind, key |-> key, value |-> value, comma |-> comma, inline |-> inline]
JsonCommentLine(text) == JsonLine("comment", "", "", FALSE, text)

RECURSIVE JsonFlatten(_)
JsonFlatten(seqs) == IF seqs = <<>> THEN <<>> ELSE Head(seqs) \o JsonFlatten(Tail(seqs))

\* JSON.stringify(data, null, 2), line by line.
JSONStringifyPretty(v) ==
  LET member(ents, i) ==
        IF ents[i].value = JsonObject
        THEN <<JsonLine("keyopen", ents[i].key, "", FALSE, <<>>)>>
               \o [j \in 1..Len(v.kids[ents[i].key]) |->
                     JsonLine("key", v.kids[ents[i].key][j].key, v.kids[ents[i].key][j].value,
                              j < Len(v.kids[ents[i].key]), <<>>)]
               \o <<JsonLine("close", "", "", i < Len(ents), <<>>)>>
        ELSE <<JsonLine("key", ents[i].key, ents[i].value, i < Len(ents), <<>>)>>
  IN  <<JsonLine("open", "", "", FALSE, <<>>)>>
        \o JsonFlatten([i \in 1..Len(v.root) |-> member(v.root, i)])
        \o <<JsonLine("close", "", "", FALSE, <<>>)>>

\* jsonKeyExtractor: /^\s*"([^"]+)":\s/
jsonKeyExtractor(l) == IF l.kind \in {"key", "keyopen"} THEN l.key ELSE Undef

\* formatCommentLine for each "\n"-separated line of a comment.
JsonCommentLines(text) == [i \in 1..Len(text) |-> JsonCommentLine(text[i])]

\* The loop of reinsertComments (lines 70-86) from line i on. A key's `after`
\* is one line (an inline comment), appended to what the line already ends in.
RECURSIVE reinsertLoop(_, _, _, _, _)
reinsertLoop(lines, i, comments, usedBefore, usedAfter) ==
  IF i > Len(lines) THEN <<>>
  ELSE LET l == lines[i]
           key == jsonKeyExtractor(l)
           e == IF key # Undef /\ MapHas(comments, key) THEN comments[key] ELSE JsonNoEntry
           doBefore == e.before # <<>> /\ key \notin usedBefore
           doAfter == e.after # <<>> /\ key \notin usedAfter
       IN  (IF doBefore THEN JsonCommentLines(e.before) ELSE <<>>)
             \o <<IF doAfter THEN [l EXCEPT !.inline = @ \o JsonFlatten(e.after)] ELSE l>>
             \o reinsertLoop(lines, i + 1, comments,
                             IF doBefore THEN usedBefore \cup {key} ELSE usedBefore,
                             IF doAfter THEN usedAfter \cup {key} ELSE usedAfter)

reinsertComments(lines, cm, c) ==
  IF ~cm[c].has THEN lines
  ELSE JsonCommentLines(JsonGetComment(cm, c, "#").before)
         \o reinsertLoop(lines, 1, cm[c].map, {}, {})
         \o JsonCommentLines(JsonGetComment(cm, c, "#").after)

\* The recursive pass of reinsertCommentsDeep over the entries from i on.
RECURSIVE reinsertChildren(_, _, _)
reinsertChildren(lines, v, i) ==
  IF i > Len(v.root) THEN lines
  ELSE reinsertChildren(
         IF v.root[i].value = JsonObject /\ v.cm[v.root[i].key].has
         THEN reinsertComments(lines, v.cm, v.root[i].key) ELSE lines,
         v, i + 1)

reinsertCommentsDeep(lines, v) == reinsertChildren(reinsertComments(lines, v.cm, JsonRoot), v, 1)

\* JsonPlugin.encode
jsonEncode(v) ==
  IF v.cm[JsonRoot].has THEN reinsertCommentsDeep(JSONStringifyPretty(v), v)
  ELSE JSONStringifyPretty(v)

\* The comment lines from line i on, and the first line after them.
RECURSIVE JsonCommentRun(_, _)
JsonCommentRun(lines, i) ==
  IF i <= Len(lines) /\ lines[i].kind = "comment"
  THEN LET r == JsonCommentRun(lines, i + 1)
       IN  [texts |-> <<lines[i].inline>> \o r.texts, next |-> r.next]
  ELSE [texts |-> <<>>, next |-> i]

\* What skipWS / skipWSAfterValue collect as pending once the structural
\* token of line i is read: the rest of that line, then the comment lines.
JsonPendingAfter(lines, i) ==
  (IF lines[i].inline # <<>> THEN <<lines[i].inline>> ELSE <<>>)
    \o JsonCommentRun(lines, i + 1).texts

JsonEmptyDoc ==
  [root |-> <<>>, kids |-> [k \in JsonRootKeys |-> <<>>], cm |-> JsonNoComments]
JsonFail == [ok |-> FALSE, next |-> 0, doc |-> JsonEmptyDoc]

JsonAddEntry(doc, c, k, v) ==
  IF c = JsonRoot THEN [doc EXCEPT !.root = ObjSet(@, k, v)]
  ELSE [doc EXCEPT !.kids[c] = ObjSet(@, k, v)]

\* parseObject for container c, from the first member or the closing brace at
\* line i, with the comments pending there. Gives the index of the line of
\* the closing brace.
RECURSIVE parseObject(_, _, _, _, _, _)
parseObject(lines, i, pending, first, c, doc) ==
  IF i > Len(lines) THEN JsonFail
  ELSE
    LET l == lines[i]
        \* the loop's exit: trailing comments, then expect("}")
        exit(d, pend, at) ==
          IF at <= Len(lines) /\ lines[at].kind = "close"
          THEN [ok |-> TRUE, next |-> at,
                doc |-> IF pend = <<>> THEN d
                        ELSE [d EXCEPT !.cm = JsonSetComment(@, c, "#",
                                [JsonGetComment(d.cm, c, "#") EXCEPT !.after = pend])]]
          ELSE JsonFail
        \* after a member: go round the loop when a comma was read
        continue(d, pend, at, hadComma) ==
          IF hadComma /\ at <= Len(lines) /\ lines[at].kind # "close"
          THEN parseObject(lines, at, pend, FALSE, c, d)
          ELSE exit(d, pend, at)
    IN
    CASE l.kind = "close" /\ first ->
           [ok |-> TRUE, next |-> i,
            doc |-> IF pending = <<>> THEN doc
                    ELSE [doc EXCEPT !.cm = JsonSetComment(@, c, "#",
                            [before |-> pending, after |-> <<>>])]]
      [] l.kind = "key" ->
           LET entry == [before |-> pending,
                         after |-> IF l.inline # <<>> THEN <<l.inline>> ELSE <<>>]
               d1 == JsonAddEntry(doc, c, l.key, l.value)
               d2 == IF entry # JsonNoEntry
                     THEN [d1 EXCEPT !.cm = JsonSetComment(@, c, l.key, entry)] ELSE d1
               run == JsonCommentRun(lines, i + 1)
           IN  continue(d2, run.texts, run.next, l.comma)
      [] l.kind = "keyopen" /\ c = JsonRoot ->
           LET d0 == [doc EXCEPT !.root = ObjSet(@, l.key, JsonObject),
                                 !.kids[l.key] = <<>>,
                                 !.cm[l.key] = [has |-> FALSE, map |-> EmptyMap]]
               child == parseObject(lines, JsonCommentRun(lines, i + 1).next,
                                    JsonPendingAfter(lines, i), TRUE, l.key, d0)
           IN  IF ~child.ok THEN JsonFail
               ELSE LET d1 == IF pending = <<>> THEN child.doc
                              ELSE [child.doc EXCEPT !.cm = JsonSetComment(@, c, l.key,
                                      [before |-> pending, after |-> <<>>])]
                    IN  continue(d1, JsonPendingAfter(lines, child.next),
                                 JsonCommentRun(lines, child.next + 1).next,
                                 lines[child.next].comma)
      [] OTHER -> JsonFail

\* JsonParser.parse (lines 24-41)
parseJson(lines) ==
  LET head == JsonCommentRun(lines, 1)
      at == head.next
  IN  IF ~(at <= Len(lines) /\ lines[at].kind = "open") THEN JsonFail
      ELSE
        LET body == parseObject(lines, JsonCommentRun(lines, at + 1).next,
                                JsonPendingAfter(lines, at), TRUE, JsonRoot, JsonEmptyDoc)
        IN  IF ~body.ok THEN JsonFail
            ELSE
              LET after == JsonPendingAfter(lines, body.next)
                  cm1 == IF head.texts = <<>> THEN body.doc.cm
                         ELSE JsonSetComment(body.doc.cm, JsonRoot, "#",
                                [before |-> head.texts, after |-> <<>>])
                  cm2 == IF after = <<>> THEN cm1
                         ELSE JsonSetComment(cm1, JsonRoot, "#",
                                [JsonGetComment(cm1, JsonRoot, "#") EXCEPT !.after = after])
              IN  [ok |-> TRUE, next |-> body.next, doc |-> [body.doc EXCEPT !.cm = cm2]]

\* The documents considered: up to MaxJsonKeys distinct keys per object.
JsonKeyLists(keys, maxKeys) ==
  {ks \in UNION {[1..n -> keys] : n \in 1..maxKeys} :
     \A i, j \in 1..Len(ks) : i # j => ks[i] # ks[j]}
JsonMembers(ks, value(_)) == [i \in 1..Len(ks) |-> [key |-> ks[i], value |-> value(ks[i])]]
JsonDoc(ks, kids) ==
  [root |-> JsonMembers(ks, LAMBDA k : IF kids[k] = <<>> THEN JsonScalar ELSE JsonObject),
   kids |-> [k \in JsonRootKeys |-> JsonMembers(kids[k], LAMBDA x : JsonScalar)],
   cm |-> JsonNoComments]
JsonDocs(maxKeys) ==
  UNION {{JsonDoc(ks, kids) :
            kids \in {f \in [JsonRootKeys -> JsonKeyLists(JsonChildKeys, maxKeys) \cup {<<>>}] :
                        \A k \in JsonRootKeys :
                          (\A i \in 1..Len(ks) : ks[i] # k) => f[k] = <<>>}} :
           ks \in JsonKeyLists(JsonRootKeys, maxKeys)}

\* The input texts: a pretty-printed document with up to MaxJsonComments line
\* comments, each on a line of its own above a line (or below the last one)
\* or at the end of a line; the n-th comment of the text reads c<n>.
JsonSpots(base) ==
  ({"above", "inline"} \X (1..Len(base))) \cup {<<"above", Len(base) + 1>>}
JsonSpotBefore(p, q) == p[2] < q[2] \/ (p[2] = q[2] /\ p[1] = "above" /\ q[1] = "inline")
JsonSpotText(spots, p) == <<JsonAtom(1 + Cardinality({q \in spots : JsonSpotBefore(q, p)}))>>
JsonDecorate(base, spots) ==
  JsonFlatten([i \in 1..Len(base) |->
      (IF <<"above", i>> \in spots
       THEN <<JsonCommentLine(JsonSpotText(spots, <<"above", i>>))>> ELSE <<>>)
        \o <<IF <<"inline", i>> \in spots
             THEN [base[i] EXCEPT !.inline = JsonSpotText(spots, <<"inline", i>>)]
             ELSE base[i]>>])
    \o (IF <<"above", Len(base) + 1>> \in spots
        THEN <<JsonCommentLine(JsonSpotText(spots, <<"above", Len(base) + 1>>))>> ELSE <<>>)
JsonTexts(maxComments) ==
  UNION {{JsonDecorate(JSONStringifyPretty(d), spots) :
            spots \in {sp \in SUBSET JsonSpots(JSONStringifyPretty(d)) :
                         Cardinality(sp) <= maxComments}} : d \in JsonDocs(MaxJsonKeys)}

OtherThanJson == <<heap, ct, nOps, det, uw, ini, ym, ya, dg, jp, fm, yh, md, xe, pe, cl, jc, je, ju, sj, xn, tq, xc, ro, ao, yn, pt>>

InitJson ==
  /\ \E t \in JsonTexts(MaxJsonComments) : js = [pc |-> "text", text |-> t]
  /\ heap = Idle /\ ct = Idle /\ nOps = Idle
  /\ det = Idle /\ uw = Idle /\ ini = Idle /\ ym = Idle /\ ya = Idle /\ dg = Idle
  /\ jp = Idle /\ fm = Idle /\ yh = Idle /\ md = Idle /\ xe = Idle /\ pe = Idle
  /\ cl = Idle /\ jc = Idle /\ je = Idle /\ ju = Idle /\ sj = Idle /\ xn = Idle
  /\ tq = Idle /\ xc = Idle /\ ro = Idle /\ ao = Idle /\ yn = Idle /\ pt = Idle

\* JsonPlugin.decode(text)
JsonDecode ==
  /\ js.pc = "text"
  /\ js' = IF parseJson(js.text).ok
           THEN [pc |-> "decoded", text |-> js.text, d1 |-> parseJson(js.text).doc]
           ELSE [pc |-> "rejected", text |-> js.text]
  /\ UNCHANGED OtherThanJson

\* JsonPlugin.encode(decoded)
JsonEncode ==
  /\ js.pc = "decoded"
  /\ js' = [pc |-> "encoded", text |-> js.text, d1 |-> js.d1, out |-> jsonEncode(js.d1)]
  /\ UNCHANGED OtherThanJson

\* JsonPlugin.decode(encoded)
JsonDecodeAgain ==
  /\ js.pc = "encoded"
  /\ js' = IF parseJson(js.out).ok
           THEN [pc |-> "done", text |-> js.text, d1 |-> js.d1, out |-> js.out,
                 d2 |-> parseJson(js.out).doc]
           ELSE [pc |-> "failed", text |-> js.text, d1 |-> js.d1, out |-> js.out]
  /\ UNCHANGED OtherThanJson

NextJson ==
  \/ JsonDecode
  \/ JsonEncode
  \/ JsonDecodeAgain

SpecJson == InitJson /\ [][NextJson]_vars

\* C2 (for JSON): for every text JSON decode accepts, decoding the encoded
\* decode succeeds and gives the same value and the same comment map on the
\* root and on every nested container as the first decode.
C2_JsonRoundTrip ==
  js.pc \in {"done", "failed"} => (js.pc = "done" /\ js.d2 = js.d1)

(***************************************************************************)
(* 6. YAML plugin, comments: attachDocComments, extractDocComments         *)
(***************************************************************************)

MaxYamlSlots == 2
MaxYamlComments == 2

\* A value: a scalar, or a map / sequence of slots with its comment map
\* (has: whether the object carries one). A sequence's keys are its indices.
YamlScalar == [t |-> "scalar", keys |-> <<>>, vals |-> <<>>, has |-> FALSE, cm |-> EmptyMap]
YamlContainer(t, keys, vals) == [t |-> t, keys |-> keys, vals |-> vals, has |-> FALSE, cm |-> EmptyMap]
YamlMapKeys == <<"a", "b", "c">>
YamlSeqKeys == <<"0", "1", "2">>
YamlKeysOf(t, n) == IF t = "map" THEN SubSeq(YamlMapKeys, 1, n) ELSE SubSeq(YamlSeqKeys, 1, n)

\* A comment text is the sequence of its lines; <<>> is undefined / null.
YamlTexts == {<<"c1">>, <<"c2">>}
YamlNoEntry == [before |-> <<>>, after |-> <<>>]

\* setComment / getComment / delete comments[k] on a value node.
YamlSetComment(v, k, e) == [v EXCEPT !.has = TRUE, !.cm = MapSet(@, k, e)]
YamlGetComment(v, k) == IF v.has /\ MapHas(v.cm, k) THEN v.cm[k] ELSE YamlNoEntry
YamlDeleteComment(v, k) == [v EXCEPT !.cm = [x \in DOMAIN @ \ {k} |-> @[x]]]

\* A node of the yaml library's AST: a Scalar, YAMLMap or YAMLSeq with its
\* commentBefore and comment, and for a map each key Scalar's commentBefore.
\* A line of AST comment text is the text and whether a blank precedes it.
YamlAstNode(t, keys, keyBefore, vals, commentBefore, comment) ==
  [t |-> t, keys |-> keys, keyBefore |-> keyBefore, vals |-> vals,
   commentBefore |-> commentBefore, comment |-> comment]

\* toAst: each non-empty line prefixed with a space.
toAst(text) == [i \in 1..Len(text) |-> [sp |-> text[i] # "", text |-> text[i]]]
\* norm: each line trimmed, leading empty lines dropped.
RECURSIVE YamlDropEmpty(_)
YamlDropEmpty(ls) == IF ls # <<>> /\ Head(ls) = "" THEN YamlDropEmpty(Tail(ls)) ELSE ls
norm(ast) == YamlDropEmpty([i \in 1..Len(ast) |-> ast[i].text])

\* new Document(data): the AST of the data, no comment anywhere.
RECURSIVE YamlCreateNode(_)
YamlCreateNode(v) ==
  YamlAstNode(v.t, v.keys, [i \in 1..Len(v.keys) |-> <<>>],
              [i \in 1..Len(v.vals) |-> YamlCreateNode(v.vals[i])], <<>>, <<>>)

\* attachCommentsToNode(node, jsValue, isRoot), slot by slot from slot i on.
RECURSIVE attachCommentsToNode(_, _, _)
RECURSIVE attachSlots(_, _, _, _)
attachSlots(node, v, isRoot, i) ==
  IF i > Len(v.keys) THEN node
  ELSE
    LET comment == YamlGetComment(v, v.keys[i])
        child == node.vals[i]
        n1 == IF comment.before = <<>> THEN node
              ELSE IF v.t = "map"
              THEN (IF i = 1 /\ ~isRoot THEN [node EXCEPT !.commentBefore = toAst(comment.before)]
                    ELSE IF i > 1 THEN [node EXCEPT !.keyBefore[i] = toAst(comment.before)]
                    ELSE node)
              ELSE (IF i = 1 THEN [node EXCEPT !.commentBefore = toAst(comment.before)]
                    ELSE [node EXCEPT !.vals[i].commentBefore = toAst(comment.before)])
        n2 == IF v.t = "map" /\ comment.after # <<>> /\ child.t = "scalar"
              THEN [n1 EXCEPT !.vals[i].comment = toAst(comment.after)] ELSE n1
        n3 == [n2 EXCEPT !.vals[i] = attachCommentsToNode(@, v.vals[i], FALSE)]
    IN  attachSlots(n3, v, isRoot, i + 1)
attachCommentsToNode(node, v, isRoot) ==
  IF v.t = "scalar" THEN node
  ELSE LET n == attachSlots(node, v, isRoot, 1)
           trailing == YamlGetComment(v, "#").after
       IN  IF trailing # <<>> /\ (v.t = "seq" \/ ~isRoot)
           THEN [n EXCEPT !.comment = toAst(trailing)] ELSE n

\* attachDocComments(doc, jsValue)
attachDocComments(doc, v) ==
  LET cc == YamlGetComment(v, "#")
      d1 == IF cc.before # <<>> /\ doc.contents.t = "map" /\ Len(doc.contents.keys) > 0
            THEN [doc EXCEPT !.contents.keyBefore[1] = toAst(cc.before)] ELSE doc
      d2 == IF cc.after # <<>> THEN [d1 EXCEPT !.comment = toAst(cc.after)] ELSE d1
  IN  [d2 EXCEPT !.contents = attachCommentsToNode(@, v, TRUE)]

\* YamlPlugin.encode up to doc.toString: the Document that is printed.
yamlEncodeDoc(v) ==
  attachDocComments([commentBefore |-> <<>>, comment |-> <<>>, contents |-> YamlCreateNode(v)], v)

\* doc.toJS(): the data of the AST, no comment map anywhere.
RECURSIVE YamlToJS(_)
YamlToJS(node) ==
  IF node.t = "scalar" THEN YamlScalar
  ELSE YamlContainer(node.t, node.keys, [i \in 1..Len(node.vals) |-> YamlToJS(node.vals[i])])

\* extractCommentsFromNode(node, jsValue), slot by slot from slot i on.
RECURSIVE extractCommentsFromNode(_, _)
RECURSIVE extractSlots(_, _, _)
extractSlots(node, v, i) ==
  IF i > Len(node.keys) THEN v
  ELSE
    LET containerBefore == IF i = 1 THEN norm(node.commentBefore) ELSE <<>>
        own == IF node.t = "map" THEN norm(node.keyBefore[i])
               ELSE norm(node.vals[i].commentBefore)
        entry == [before |-> containerBefore \o own,
                  after |-> IF node.t = "map" /\ node.vals[i].t = "scalar"
                            THEN norm(node.vals[i].comment) ELSE <<>>]
        v1 == IF entry # YamlNoEntry THEN YamlSetComment(v, node.keys[i], entry) ELSE v
        v2 == [v1 EXCEPT !.vals[i] = extractCommentsFromNode(node.vals[i], @)]
    IN  extractSlots(node, v2, i + 1)
extractCommentsFromNode(node, v) ==
  IF v.t = "scalar" THEN v
  ELSE LET v1 == extractSlots(node, v, 1)
           trailing == norm(node.comment)
       IN  IF trailing # <<>>
           THEN YamlSetComment(v1, "#", [YamlGetComment(v1, "#") EXCEPT !.after = trailing])
           ELSE v1

\* The variant that never finds the header at the start of a longer text.
YamlStartsWithNever(before, header) == FALSE

\* before.startsWith(headerText + "\n")
YamlStartsWithLine(before, header) ==
  Len(before) > Len(header) /\ SubSeq(before, 1, Len(header)) = header

\* extractDocComments(doc, jsValue)
extractDocComments(doc, v) ==
  LET v1 == extractCommentsFromNode(doc.contents, v)
      docBefore == norm(doc.commentBefore)
      v2 == IF docBefore # <<>>
            THEN YamlSetComment(v1, "#", [YamlGetComment(v1, "#") EXCEPT !.before = docBefore])
            ELSE v1
      map == doc.contents
      single == docBefore = <<>> /\ map.t = "map" /\ Len(map.keys) > 0
      headerText == IF ~single THEN <<>>
                    ELSE IF norm(map.commentBefore) # <<>> THEN norm(map.commentBefore)
                    ELSE norm(map.keyBefore[1])
      v3 == IF headerText = <<>> THEN v2
            ELSE
              LET w == YamlSetComment(v2, "#",
                         [YamlGetComment(v2, "#") EXCEPT !.before = headerText])
                  first == YamlGetComment(w, map.keys[1])
                  remaining == IF first.before = headerText THEN <<>>
                               ELSE IF YamlStartsWithLine(first.before, headerText)
                               THEN SubSeq(first.before, Len(headerText) + 1, Len(first.before))
                               ELSE first.before
              IN  IF first.before = <<>> THEN w
                  ELSE IF remaining # <<>> \/ first.after # <<>>
                  THEN YamlSetComment(w, map.keys[1], [before |-> remaining, after |-> first.after])
                  ELSE YamlDeleteComment(w, map.keys[1])
      docAfter == norm(doc.comment)
  IN  IF docAfter # <<>>
      THEN YamlSetComment(v3, "#", [YamlGetComment(v3, "#") EXCEPT !.after = docAfter])
      ELSE v3

\* YamlPlugin.decode from the parsed Document on.
yamlDecodeDoc(doc) == extractDocComments(doc, YamlToJS(doc.contents))

\* doc.toString() followed by parseAllDocuments(): the library keeps every
\* comment at its node; the comment printed above the first key of the root
\* map comes back on that key, on the map or on the document.
YamlHeaderPlaces == {"key", "map", "doc"}
YamlReparse(doc, place) ==
  IF doc.contents.t = "map" /\ Len(doc.contents.keys) > 0
       /\ doc.contents.keyBefore[1] # <<>> /\ doc.contents.commentBefore = <<>>
       /\ doc.commentBefore = <<>> /\ place # "key"
  THEN IF place = "map"
       THEN [doc EXCEPT !.contents.commentBefore = doc.contents.keyBefore[1],
                        !.contents.keyBefore[1] = <<>>]
       ELSE [doc EXCEPT !.commentBefore = doc.contents.keyBefore[1],
                        !.contents.keyBefore[1] = <<>>]
  ELSE doc

\* The values considered: a map or sequence of up to MaxYamlSlots slots, each
\* a scalar or a map / sequence of MaxYamlSlots scalars, with up to
\* MaxYamlComments before/after texts set in the comment maps: spot <<0, k, f>>
\* is field f of the root's entry for k, <<i, k, f>> that of the i-th child's.
YamlChild(kind) ==
  IF kind = "scalar" THEN YamlScalar
  ELSE YamlContainer(kind, YamlKeysOf(kind, MaxYamlSlots), [j \in 1..MaxYamlSlots |-> YamlScalar])
YamlShapes(maxSlots) ==
  UNION {{YamlContainer(t, YamlKeysOf(t, Len(kinds)), [i \in 1..Len(kinds) |-> YamlChild(kinds[i])]) :
            kinds \in UNION {[1..n -> {"scalar", "map", "seq"}] : n \in 1..maxSlots}} :
           t \in {"map", "seq"}}
YamlKeySet(v) == {"#"} \cup {v.keys[i] : i \in 1..Len(v.keys)}
YamlSpots(v) ==
  ({0} \X YamlKeySet(v) \X {"before", "after"})
    \cup UNION {{i} \X YamlKeySet(v.vals[i]) \X {"before", "after"} :
                  i \in {j \in 1..Len(v.vals) : v.vals[j].t # "scalar"}}
YamlCommentMap(dec, c) ==
  [k \in {sp[2] : sp \in {q \in DOMAIN dec : q[1] = c}} |->
     [before |-> IF <<c, k, "before">> \in DOMAIN dec THEN dec[<<c, k, "before">>] ELSE <<>>,
      after |-> IF <<c, k, "after">> \in DOMAIN dec THEN dec[<<c, k, "after">>] ELSE <<>>]]
YamlWithComments(v, dec, c) ==
  IF \E q \in DOMAIN dec : q[1] = c
  THEN [v EXCEPT !.has = TRUE, !.cm = YamlCommentMap(dec, c)] ELSE v
YamlDecorate(v, dec) ==
  [YamlWithComments(v, dec, 0) EXCEPT
     !.vals = [i \in 1..Len(v.vals) |-> YamlWithComments(v.vals[i], dec, i)]]
YamlValues(maxComments) ==
  UNION {{YamlDecorate(v, dec) :
            dec \in UNION {[D -> YamlTexts] :
                             D \in {S \in SUBSET YamlSpots(v) : Cardinality(S) <= maxComments}}} :
           v \in YamlShapes(MaxYamlSlots)}

OtherThanYaml == <<heap, ct, nOps, det, uw, js, ini, ya, dg, jp, fm, yh, md, xe, pe, cl, jc, je, ju, sj, xn, tq, xc, ro, ao, yn, pt>>

InitYaml ==
  /\ \E v \in YamlValues(MaxYamlComments) : ym = [pc |-> "value", v |-> v]
  /\ heap = Idle /\ ct = Idle /\ nOps = Idle
  /\ det = Idle /\ uw = Idle /\ js = Idle /\ ini = Idle /\ ya = Idle /\ dg = Idle
  /\ jp = Idle /\ fm = Idle /\ yh = Idle /\ md = Idle /\ xe = Idle /\ pe = Idle
  /\ cl = Idle /\ jc = Idle /\ je = Idle /\ ju = Idle /\ sj = Idle /\ xn = Idle
  /\ tq = Idle /\ xc = Idle /\ ro = Idle /\ ao = Idle /\ yn = Idle /\ pt = Idle

\* YamlPlugin.encode(v): the Document built and decorated.
YamlEncode ==
  /\ ym.pc = "value"
  /\ ym' = [pc |-> "encoded", v |-> ym.v, doc |-> yamlEncodeDoc(ym.v)]
  /\ UNCHANGED OtherThanYaml

\* The text printed by doc.toString() is parsed by parseAllDocuments().
YamlParse ==
  /\ ym.pc = "encoded"
  /\ \E place \in YamlHeaderPlaces :
       ym' = [pc |-> "parsed", v |-> ym.v, doc |-> YamlReparse(ym.doc, place)]
  /\ UNCHANGED OtherThanYaml

\* YamlPlugin.decode: toJS and extractDocComments on the parsed Document.
YamlDecode ==
  /\ ym.pc = "parsed"
  /\ ym' = [pc |-> "done", v |-> ym.v, doc |-> ym.doc, v2 |-> yamlDecodeDoc(ym.doc)]
  /\ UNCHANGED OtherThanYaml

NextYaml ==
  \/ YamlEncode
  \/ YamlParse
  \/ YamlDecode

SpecYaml == InitYaml /\ [][NextYaml]_vars

\* C3: for any composite value v, YAML decode(encode(v)) has v's data and v's
\* comment maps: the root's "#" before and after, the before of every map key
\* (the first key of the root map too) and sequence item, the after of every
\* slot.
C3_YamlRoundTrip == ym.pc = "done" => ym.v2 = ym.v

(***************************************************************************)
(* 7. YAML plugin, anchors: extractAnchorsFromNode, applyAnchorsToNode     *)
(***************************************************************************)

MaxAnchorPairs == 2

YamlAnchorNames == {"x"}

\* A Pair of a YAMLMap: the key Scalar (with its anchor, if any) and the
\* value, a Scalar, an Alias (source) or a YAMLMap of scalar / alias pairs.
YamlPair(key, keyAnchor, kind, anchor, source, value, items) ==
  [key |-> key, keyAnchor |-> keyAnchor, kind |-> kind, anchor |-> anchor,
   source |-> source, value |-> value, items |-> items]

\* A JS value: a scalar s, or an object of keys and vals with its anchor map.
AnchorScalar(x) ==
  [t |-> "scalar", s |-> x, keys |-> <<>>, vals |-> <<>>, has |-> FALSE, am |-> EmptyMap]
AnchorEmptyObject ==
  [t |-> "map", s |-> "", keys |-> <<>>, vals |-> <<>>, has |-> FALSE, am |-> EmptyMap]
AnchorAddSlot(obj, k, v) == [obj EXCEPT !.keys = Append(@, k), !.vals = Append(@, v)]
\* setAnchor(obj, key, entry)
AnchorSet(obj, k, e) == [obj EXCEPT !.has = TRUE, !.am = MapSet(@, k, e)]
\* getAnchors(obj)?.[key]
AnchorEntryOf(obj, k) ==
  IF obj.has /\ MapHas(obj.am, k) THEN obj.am[k] ELSE [anchor |-> Undef, alias |-> Undef]

\* doc.toJS() and extractAnchorsFromNode over the pairs from i on. env maps
\* each anchor name met so far to the JS value it stands for: an alias slot
\* holds that very value (for an object, the same object).
RECURSIVE extractAnchorsFromNode(_, _, _, _)
extractAnchorsFromNode(items, i, env, obj) ==
  IF i > Len(items) THEN [obj |-> obj, env |-> env]
  ELSE
    LET p == items[i]
        env1 == IF p.keyAnchor # Undef THEN MapSet(env, p.keyAnchor, AnchorScalar(p.key)) ELSE env
    IN  IF p.kind = "alias"
        THEN extractAnchorsFromNode(items, i + 1, env1,
               AnchorSet(AnchorAddSlot(obj, p.key, env1[p.source]), p.key,
                         [anchor |-> Undef, alias |-> p.source]))
        ELSE
          LET sub == IF p.kind = "map"
                     THEN extractAnchorsFromNode(p.items, 1, env1, AnchorEmptyObject)
                     ELSE [obj |-> AnchorScalar(p.value), env |-> env1]
              env2 == IF p.anchor # Undef THEN MapSet(sub.env, p.anchor, sub.obj) ELSE sub.env
              o1 == AnchorAddSlot(obj, p.key, sub.obj)
              o2 == IF p.anchor # Undef
                    THEN AnchorSet(o1, p.key, [anchor |-> p.anchor, alias |-> Undef]) ELSE o1
          IN  extractAnchorsFromNode(items, i + 1, env2, o2)

\* YamlPlugin.decode of a document whose contents are the pairs `items`.
yamlDecodeAnchors(items) == extractAnchorsFromNode(items, 1, EmptyMap, AnchorEmptyObject).obj

\* new Document(data) and applyAnchorsToNode: the pairs of the Document that
\* is printed. No key Scalar is given an anchor.
RECURSIVE applyAnchorsToNode(_)
applyAnchorsToNode(obj) ==
  [i \in 1..Len(obj.keys) |->
     LET entry == AnchorEntryOf(obj, obj.keys[i])
         val == obj.vals[i]
     IN  IF entry.alias # Undef
         THEN YamlPair(obj.keys[i], Undef, "alias", Undef, entry.alias, "", <<>>)
         ELSE IF val.t = "map"
         THEN YamlPair(obj.keys[i], Undef, "map", entry.anchor, Undef, "", applyAnchorsToNode(val))
         ELSE YamlPair(obj.keys[i], Undef, "scalar", entry.anchor, Undef, val.s, <<>>)]

\* The anchor names a document defines before each alias is met: whether
\* every alias of the pairs from i on has its anchor before it.
RECURSIVE AliasesResolve(_, _, _)
AliasesResolve(items, i, defined) ==
  IF i > Len(items) THEN [ok |-> TRUE, defined |-> defined]
  ELSE
    LET p == items[i]
        d1 == IF p.keyAnchor # Undef THEN defined \cup {p.keyAnchor} ELSE defined
    IN  IF p.kind = "alias"
        THEN IF p.source \in d1 THEN AliasesResolve(items, i + 1, d1)
             ELSE [ok |-> FALSE, defined |-> d1]
        ELSE
          LET sub == IF p.kind = "map" THEN AliasesResolve(p.items, 1, d1)
                     ELSE [ok |-> TRUE, defined |-> d1]
              d2 == IF p.anchor # Undef THEN sub.defined \cup {p.anchor} ELSE sub.defined
          IN  IF sub.ok THEN AliasesResolve(items, i + 1, d2)
              ELSE [ok |-> FALSE, defined |-> d2]

\* The documents considered: a root map of up to MaxAnchorPairs pairs with
\* keys k1, k2, ...; a key may carry an anchor; a value is a scalar or a map
\* of one or two scalar / alias pairs (either may carry an anchor) or an
\* alias. Every alias follows an anchor of its name, and no map holds an alias
\* of its own anchor (no cycle).
AnchorKey(i) == CASE i = 1 -> "k1" [] i = 2 -> "k2" [] i = 3 -> "k3" [] OTHER -> "k4"
AnchorSubKey(j) == IF j = 1 THEN "m1" ELSE "m2"
AnchorOpt == YamlAnchorNames \cup {Undef}
AnchorSubPairs ==
  {YamlPair(k, Undef, "scalar", a, Undef, "w", <<>>) : k \in {"m"}, a \in AnchorOpt}
    \cup {YamlPair("m", Undef, "alias", Undef, n, "", <<>>) : n \in YamlAnchorNames}
AnchorSubLists ==
  {[j \in 1..Len(ps) |-> [ps[j] EXCEPT !.key = AnchorSubKey(j)]] :
     ps \in UNION {[1..n -> AnchorSubPairs] : n \in 1..2}}
AnchorPairs ==
  {YamlPair("k", ka, "scalar", a, Undef, "v", <<>>) : ka \in AnchorOpt, a \in AnchorOpt}
    \cup {YamlPair("k", ka, "alias", Undef, n, "", <<>>) : ka \in AnchorOpt, n \in YamlAnchorNames}
    \cup {pr \in {YamlPair("k", ka, "map", a, Undef, "", sub) :
                    ka \in AnchorOpt, a \in AnchorOpt, sub \in AnchorSubLists} :
            \A j \in 1..Len(pr.items) : pr.items[j].kind = "alias" => pr.items[j].source # pr.anchor}
AnchorDocs(maxPairs) ==
  {d \in {[i \in 1..Len(ps) |-> [ps[i] EXCEPT !.key = AnchorKey(i)]] :
            ps \in UNION {[1..n -> AnchorPairs] : n \in 1..maxPairs}} :
     AliasesResolve(d, 1, {}).ok}

OtherThanAnchor == <<heap, ct, nOps, det, uw, js, ini, ym, dg, jp, fm, yh, md, xe, pe, cl, jc, je, ju, sj, xn, tq, xc, ro, ao, yn, pt>>

InitAnchor ==
  /\ \E d \in AnchorDocs(MaxAnchorPairs) : ya = [pc |-> "parsed", src |-> d]
  /\ heap = Idle /\ ct = Idle /\ nOps = Idle
  /\ det = Idle /\ uw = Idle /\ js = Idle /\ ini = Idle /\ ym = Idle /\ dg = Idle
  /\ jp = Idle /\ fm = Idle /\ yh = Idle /\ md = Idle /\ xe = Idle /\ pe = Idle
  /\ cl = Idle /\ jc = Idle /\ je = Idle /\ ju = Idle /\ sj = Idle /\ xn = Idle
  /\ tq = Idle /\ xc = Idle /\ ro = Idle /\ ao = Idle /\ yn = Idle /\ pt = Idle

\* YamlPlugin.decode: toJS and extractAnchorsFromNode on the parsed document.
AnchorDecode ==
  /\ ya.pc = "parsed"
  /\ ya' = [pc |-> "decoded", src |-> ya.src, d1 |-> yamlDecodeAnchors(ya.src)]
  /\ UNCHANGED OtherThanAnchor

\* YamlPlugin.encode: doc.toString() prints the document, or throws on an
\* alias with no anchor before it (the library's verifyAliasOrder).
AnchorEncode ==
  /\ ya.pc = "decoded"
  /\ LET out == applyAnchorsToNode(ya.d1)
     IN  \/ /\ AliasesResolve(out, 1, {}).ok
            /\ ya' = [pc |-> "encoded", src |-> ya.src, d1 |-> ya.d1, out |-> out]
         \/ /\ ~AliasesResolve(out, 1, {}).ok
            /\ \E thrown \in BOOLEAN :
                 ya' = [pc |-> IF thrown THEN "encode threw" ELSE "encoded",
                        src |-> ya.src, d1 |-> ya.d1, out |-> out]
  /\ UNCHANGED OtherThanAnchor

\* YamlPlugin.decode of the printed document: the parse fails on an alias
\* with no anchor before it.
AnchorDecodeAgain ==
  /\ ya.pc = "encoded"
  /\ ya' = IF AliasesResolve(ya.out, 1, {}).ok
           THEN [pc |-> "done", src |-> ya.src, d1 |-> ya.d1, out |-> ya.out,
                 d2 |-> yamlDecodeAnchors(ya.out)]
           ELSE [pc |-> "decode threw", src |-> ya.src, d1 |-> ya.d1, out |-> ya.out]
  /\ UNCHANGED OtherThanAnchor

NextAnchor ==
  \/ AnchorDecode
  \/ AnchorEncode
  \/ AnchorDecodeAgain

SpecAnchor == InitAnchor /\ [][NextAnchor]_vars

\* The slots of a value tagged with field f = name, not counting the slots
\* of an object reached through an alias, and the tokens of a printed document.
RECURSIVE AnchorSlotCount(_, _, _)
AnchorSlotCount(obj, f, name) ==
  LET Sum[i \in 0..Len(obj.keys)] ==
        IF i = 0 THEN 0
        ELSE Sum[i - 1]
               + (IF AnchorEntryOf(obj, obj.keys[i])[f] = name THEN 1 ELSE 0)
               + (IF obj.vals[i].t = "map" /\ AnchorEntryOf(obj, obj.keys[i]).alias = Undef
                  THEN AnchorSlotCount(obj.vals[i], f, name) ELSE 0)
  IN  Sum[Len(obj.keys)]
RECURSIVE AnchorTokenCount(_, _, _)
AnchorTokenCount(items, f, name) ==
  LET Sum[i \in 0..Len(items)] ==
        IF i = 0 THEN 0
        ELSE Sum[i - 1]
               + (IF f = "anchor" /\ items[i].keyAnchor = name THEN 1 ELSE 0)
               + (IF f = "anchor" /\ items[i].anchor = name THEN 1 ELSE 0)
               + (IF f = "alias" /\ items[i].source = name THEN 1 ELSE 0)
               + AnchorTokenCount(items[i].items, f, name)
  IN  Sum[Len(items)]

\* C9: encode of a decoded document prints one &a per slot tagged
\* {anchor: a} and one *a per slot tagged {alias: a}, and decoding what was
\* printed resolves every alias slot to the value of its anchor: the decoded
\* value and anchor maps are those of the first decode.
C9_AnchorsReemitted ==
  ya.pc \in {"done", "encode threw", "decode threw"} =>
    /\ ya.pc = "done"
    /\ \A a \in YamlAnchorNames :
         /\ AnchorTokenCount(ya.out, "anchor", a) = AnchorSlotCount(ya.d1, "anchor", a)
         /\ AnchorTokenCount(ya.out, "alias", a) = AnchorSlotCount(ya.d1, "alias", a)
    /\ ya.d2 = ya.d1

(***************************************************************************)
(* 8. Dangling comment entries: setComment on a key that is no slot, or a  *)
(*    slot deleted after its comment was set, then JsonPlugin.encode       *)
(***************************************************************************)

MaxDangling == 2

\* The keys a comment entry or a slot can have in these documents.
DanglingKeys == JsonRootKeys \cup JsonChildKeys
DanglingText == <<<<JsonAtom(1)>>>>

\* The members of container c of value v, and whether k is one of its slots.
DanglingMembers(v, c) == IF c = JsonRoot THEN v.root ELSE v.kids[c]
DanglingIsSlot(v, c, k) ==
  \E i \in 1..Len(DanglingMembers(v, c)) : DanglingMembers(v, c)[i].key = k
DanglingIsContainer(v, c) ==
  c = JsonRoot \/ (DanglingIsSlot(v, JsonRoot, c) /\ v.kids[c] # <<>>)

\* delete obj[k]: the slot goes, the comment map of obj stays as it is.
DanglingDelete(v, c, k) ==
  LET rest == SelectSeq(DanglingMembers(v, c), LAMBDA m : m.key # k)
  IN  IF c = JsonRoot
      THEN [v EXCEPT !.root = rest, !.kids[k] = <<>>,
                     !.cm[k] = [has |-> FALSE, map |-> EmptyMap]]
      ELSE [v EXCEPT !.kids[c] = rest]

\* v without the comment entries whose key is neither "#" nor a slot of the
\* container that owns the map.
DanglingPrune(v) ==
  [v EXCEPT !.cm = [c \in JsonContainers |->
     [has |-> v.cm[c].has,
      map |-> [k \in DOMAIN v.cm[c].map |->
                 IF k = "#" \/ (DanglingIsContainer(v, c) /\ DanglingIsSlot(v, c, k))
                 THEN v.cm[c].map[k] ELSE JsonNoEntry]]]]

InitDangling ==
  /\ \E d \in JsonDocs(MaxJsonKeys) : dg = [pc |-> "value", v |-> d, n |-> 0]
  /\ heap = Idle /\ ct = Idle /\ nOps = Idle
  /\ det = Idle /\ uw = Idle /\ js = Idle /\ ini = Idle /\ ym = Idle /\ ya = Idle
  /\ jp = Idle /\ fm = Idle /\ yh = Idle /\ md = Idle /\ xe = Idle /\ pe = Idle
  /\ cl = Idle /\ jc = Idle /\ je = Idle /\ ju = Idle /\ sj = Idle /\ xn = Idle
  /\ tq = Idle /\ xc = Idle /\ ro = Idle /\ ao = Idle /\ yn = Idle /\ pt = Idle

OtherThanDangling == <<heap, ct, nOps, det, uw, js, ini, ym, ya, jp, fm, yh, md, xe, pe, cl, jc, je, ju, sj, xn, tq, xc, ro, ao, yn, pt>>

\* setComment(container, key, {before: "c1"}) or {after: "c1"}
DanglingSetComment ==
  /\ dg.pc = "value" /\ dg.n < MaxDangling
  /\ \E c \in JsonContainers, k \in DanglingKeys, place \in {"before", "after"} :
       /\ DanglingIsContainer(dg.v, c)
       /\ dg' = [dg EXCEPT !.n = @ + 1,
                           !.v.cm = JsonSetComment(dg.v.cm, c, k,
                                      [JsonNoEntry EXCEPT ![place] = DanglingText])]
  /\ UNCHANGED OtherThanDangling

\* delete container[key], leaving at least one slot in the container
DanglingDeleteSlot ==
  /\ dg.pc = "value" /\ dg.n < MaxDangling
  /\ \E c \in JsonContainers, k \in DanglingKeys :
       /\ DanglingIsContainer(dg.v, c) /\ DanglingIsSlot(dg.v, c, k)
       /\ Len(DanglingMembers(dg.v, c)) >= 2
       /\ dg' = [dg EXCEPT !.n = @ + 1, !.v = DanglingDelete(dg.v, c, k)]
  /\ UNCHANGED OtherThanDangling

\* JsonPlugin.encode(value)
DanglingEncode ==
  /\ dg.pc = "value"
  /\ dg' = [pc |-> "encoded", v |-> dg.v, n |-> dg.n, out |-> jsonEncode(dg.v)]
  /\ UNCHANGED OtherThanDangling

NextDangling ==
  \/ DanglingSetComment
  \/ DanglingDeleteSlot
  \/ DanglingEncode

SpecDangling == InitDangling /\ [][NextDangling]_vars

\* C11 (for JSON): a comment entry whose key is no slot of the container
\* owning the map contributes nothing to the encoded text: the output is the
\* output for the same value without its dangling entries.
C11_DanglingDropped ==
  dg.pc = "encoded" => dg.out = jsonEncode(DanglingPrune(dg.v))

(***************************************************************************)
(* 9. jsonParser.ts, character by character                                *)
(***************************************************************************)

MaxJsonPieces == 4

\* A text is a sequence of one-character strings; positions count from 0 as
\* in the code. this.input[pos] is undefined past the end.
JpAt(t, pos) == IF pos >= 0 /\ pos < Len(t) THEN t[pos + 1] ELSE Undef
JpMin(a, b) == IF a < b THEN a ELSE b
JpSlice(t, a, b) == SubSeq(t, a + 1, JpMin(b, Len(t)))
JpDigits == {"0", "1", "2", "3", "4", "5", "6", "7", "8", "9"}
isDigit(ch) == ch \in JpDigits
JpBlank == {" ", "\t", "\r", "\n"}

RECURSIVE JpTrimStart(_)
JpTrimStart(s) == IF s # <<>> /\ Head(s) \in JpBlank THEN JpTrimStart(Tail(s)) ELSE s
RECURSIVE JpTrimEnd(_)
JpTrimEnd(s) ==
  IF s # <<>> /\ s[Len(s)] \in JpBlank THEN JpTrimEnd(SubSeq(s, 1, Len(s) - 1)) ELSE s
JpTrim(s) == JpTrimEnd(JpTrimStart(s))

\* list.join("\n"); the empty text stands for null as well: every use of a
\* collected comment in the parser is a truthiness test.
RECURSIVE JpJoin(_)
JpJoin(list) ==
  IF list = <<>> THEN <<>>
  ELSE IF Len(list) = 1 THEN list[1]
  ELSE list[1] \o <<"\n">> \o JpJoin(Tail(list))

JpStartsWith(t, word, pos) == JpSlice(t, pos, pos + Len(word)) = word

\* readLineComment (lines 140-147)
RECURSIVE JpLineEnd(_, _)
JpLineEnd(t, pos) == IF pos < Len(t) /\ t[pos + 1] # "\n" THEN JpLineEnd(t, pos + 1) ELSE pos
readLineComment(t, pos) ==
  [text |-> JpTrim(JpSlice(t, pos + 2, JpLineEnd(t, pos + 2))), pos |-> JpLineEnd(t, pos + 2)]

\* readBlockComment (lines 149-167): the scan from position p on
RECURSIVE JpBlockScan(_, _, _, _)
JpBlockScan(t, start, p, line) ==
  IF p >= Len(t) THEN [text |-> JpTrim(JpSlice(t, start, Len(t))), pos |-> p, line |-> line]
  ELSE LET line1 == IF t[p + 1] = "\n" THEN line + 1 ELSE line
       IN  IF t[p + 1] = "*" /\ JpAt(t, p + 1) = "/"
           THEN [text |-> JpTrim(JpSlice(t, start, p)), pos |-> p + 2, line |-> line1]
           ELSE JpBlockScan(t, start, p + 1, line1)
\* a reader that gives up the text of a comment that is never closed
readBlockCommentClosedOnly(t, pos, line) ==
  IF JpBlockScan(t, pos + 2, pos + 2, line).pos >= Len(t)
       /\ JpSlice(t, Len(t) - 2, Len(t)) # <<"*", "/">>
  THEN [JpBlockScan(t, pos + 2, pos + 2, line) EXCEPT !.text = <<>>]
  ELSE JpBlockScan(t, pos + 2, pos + 2, line)
readBlockComment(t, pos, line) == JpBlockScan(t, pos + 2, pos + 2, line)

\* skipWS (lines 47-71) with the comments collected so far
RECURSIVE JpSkip(_, _, _, _)
JpSkip(t, pos, line, comments) ==
  LET ch == JpAt(t, pos)
  IN  IF ch \in {" ", "\t", "\r"} THEN JpSkip(t, pos + 1, line, comments)
      ELSE IF ch = "\n" THEN JpSkip(t, pos + 1, line + 1, comments)
      ELSE IF ch = "/" /\ JpAt(t, pos + 1) = "/"
      THEN JpSkip(t, readLineComment(t, pos).pos, line,
                  Append(comments, readLineComment(t, pos).text))
      ELSE IF ch = "/" /\ JpAt(t, pos + 1) = "*"
      THEN JpSkip(t, readBlockComment(t, pos, line).pos, readBlockComment(t, pos, line).line,
                  Append(comments, readBlockComment(t, pos, line).text))
      ELSE [text |-> JpJoin(comments), pos |-> pos, line |-> line]
skipWS(t, pos, line) == JpSkip(t, pos, line, <<>>)

\* skipWSAfterValue (lines 81-138); s holds its locals: hasInline tells
\* inlineComment !== null, which an empty inline comment also makes true.
RECURSIVE JpSkipAfter(_, _, _, _, _)
JpSkipAfter(t, pos, line, valueLine, s) ==
  LET ch == JpAt(t, pos)
      take(c) == IF line = valueLine /\ ~s.hasInline
                 THEN [s EXCEPT !.hasInline = TRUE, !.inline = c.text]
                 ELSE [s EXCEPT !.pending = Append(@, c.text)]
  IN  IF ch \in {" ", "\t", "\r"} THEN JpSkipAfter(t, pos + 1, line, valueLine, s)
      ELSE IF ch = "\n" THEN JpSkipAfter(t, pos + 1, line + 1, valueLine, s)
      ELSE IF ch = "," /\ ~s.hadComma
      THEN JpSkipAfter(t, pos + 1, line, valueLine, [s EXCEPT !.hadComma = TRUE])
      ELSE IF ch = "/" /\ JpAt(t, pos + 1) = "/"
      THEN JpSkipAfter(t, readLineComment(t, pos).pos, line, valueLine,
                       take(readLineComment(t, pos)))
      ELSE IF ch = "/" /\ JpAt(t, pos + 1) = "*"
      THEN JpSkipAfter(t, readBlockComment(t, pos, line).pos,
                       readBlockComment(t, pos, line).line, valueLine,
                       take(readBlockComment(t, pos, line)))
      ELSE [inline |-> s.inline, pending |-> JpJoin(s.pending), hadComma |-> s.hadComma,
            pos |-> pos, line |-> line]
skipWSAfterValue(t, pos, line, valueLine) ==
  JpSkipAfter(t, pos, line, valueLine,
              [hasInline |-> FALSE, inline |-> <<>>, pending |-> <<>>, hadComma |-> FALSE])

\* A parsed value: t is its type, s the characters of a string or of a number
\* literal (Number and JSON.parse read the same literal to the same number),
\* items the entries of an array or object in order, cm its comment map.
JpValue(ty, s, items, cm) == [t |-> ty, s |-> s, items |-> items, cm |-> cm]
JpNone == JpValue("none", <<>>, <<>>, EmptyMap)
JpNoEntry == [before |-> <<>>, after |-> <<>>]
JpHash == <<"#">>

\* A result: the value and the parser's pos and line after it, or the thrown
\* error with the pos and line its message carries.
JpOk(pos, line, v) == [ok |-> TRUE, pos |-> pos, line |-> line, val |-> v]
JpError(pos, line) == [ok |-> FALSE, pos |-> pos, line |-> line, val |-> JpNone]

\* parseString (lines 284-338): the loop from pos on
JpEscape(esc) ==
  CASE esc = "b" -> "\\b" [] esc = "f" -> "\f" [] esc = "n" -> "\n"
    [] esc = "r" -> "\r" [] esc = "t" -> "\t" [] OTHER -> esc
RECURSIVE JpStringLoop(_, _, _, _)
JpStringLoop(t, pos, line, result) ==
  IF pos >= Len(t) THEN JpError(pos, line)
  ELSE LET ch == t[pos + 1]
       IN  IF ch = "\\"
           THEN IF JpAt(t, pos + 1) = "u"
                THEN JpStringLoop(t, pos + 6, line,
                                  result \o <<"\\u">> \o JpSlice(t, pos + 2, pos + 6))
                ELSE JpStringLoop(t, pos + 2, line, Append(result, JpEscape(JpAt(t, pos + 1))))
           ELSE IF ch = "\"" THEN JpOk(pos + 1, line, JpValue("string", result, <<>>, EmptyMap))
           ELSE JpStringLoop(t, pos + 1, IF ch = "\n" THEN line + 1 ELSE line,
                             Append(result, ch))
parseString(t, pos, line) ==
  IF JpAt(t, pos) # "\"" THEN JpError(pos, line) ELSE JpStringLoop(t, pos + 1, line, <<>>)

\* parseNumber (lines 340-376)
RECURSIVE JpDigitsEnd(_, _)
JpDigitsEnd(t, pos) == IF pos < Len(t) /\ isDigit(t[pos + 1]) THEN JpDigitsEnd(t, pos + 1) ELSE pos
parseNumber(t, start, line) ==
  LET p0 == IF JpAt(t, start) = "-" THEN start + 1 ELSE start
      p1 == IF JpAt(t, p0) = "0" THEN p0 + 1 ELSE JpDigitsEnd(t, p0)
      p2 == IF JpAt(t, p1) = "." THEN JpDigitsEnd(t, p1 + 1) ELSE p1
      p3 == IF JpAt(t, p2) \in {"e", "E"}
            THEN IF JpAt(t, p2 + 1) \in {"+", "-"} THEN p2 + 2 ELSE p2 + 1
            ELSE p2
      p4 == IF JpAt(t, p2) \in {"e", "E"} THEN JpDigitsEnd(t, p3) ELSE p2
      \* isNaN(Number(numStr)): a decimal literal needs a digit in its integer
      \* or fraction part and, after e, a digit in the exponent.
      isNaN == (p1 = p0 /\ (p2 = p1 \/ p2 = p1 + 1)) \/ (p3 # p2 /\ p4 = p3)
  IN  IF isNaN THEN JpError(p4, line)
      ELSE JpOk(p4, line, JpValue("number", JpSlice(t, start, p4), <<>>, EmptyMap))

\* parseBool (lines 378-388) and parseNull (lines 390-396)
parseBool(t, pos, line) ==
  IF JpStartsWith(t, <<"t", "r", "u", "e">>, pos)
  THEN JpOk(pos + 4, line, JpValue("true", <<>>, <<>>, EmptyMap))
  ELSE IF JpStartsWith(t, <<"f", "a", "l", "s", "e">>, pos)
  THEN JpOk(pos + 5, line, JpValue("false", <<>>, <<>>, EmptyMap))
  ELSE JpError(pos, line)
parseNull(t, pos, line) ==
  IF JpStartsWith(t, <<"n", "u", "l", "l">>, pos)
  THEN JpOk(pos + 4, line, JpValue("null", <<>>, <<>>, EmptyMap))
  ELSE JpError(pos, line)

\* obj[key] = value and arr.push(value)
JpPut(items, key, v) ==
  IF \E i \in 1..Len(items) : items[i].key = key
  THEN [i \in 1..Len(items) |-> IF items[i].key = key THEN [key |-> key, val |-> v] ELSE items[i]]
  ELSE Append(items, [key |-> key, val |-> v])
\* String(index)
JpIndexKey(index) == <<<<"0", "1", "2", "3", "4", "5", "6", "7", "8", "9">>[index + 1]>>

\* setComment(container, key, entry) when the entry has a before or an after
JpSetComment(v, key, e) == IF e = JpNoEntry THEN v ELSE [v EXCEPT !.cm = MapSet(@, key, e)]
JpGetComment(v, key) == IF MapHas(v.cm, key) THEN v.cm[key] ELSE JpNoEntry

\* The end of parseObject / parseArray (lines 229-236, 275-281): the pending
\* comment becomes "#".after, then the closing bracket is expected.
JpClose(t, pos, line, v, pendingBefore, bracket) ==
  IF JpAt(t, pos) # bracket THEN JpError(pos, line)
  ELSE JpOk(pos + 1, line,
            IF pendingBefore = <<>> THEN v
            ELSE JpSetComment(v, JpHash, [JpGetComment(v, JpHash) EXCEPT !.after = pendingBefore]))

RECURSIVE parseValue(_, _, _)
RECURSIVE JpObjectLoop(_, _, _, _, _)
RECURSIVE JpArrayLoop(_, _, _, _, _)

\* The while loop of parseObject (lines 193-227), one definition per step,
\* last step first. Lines 223-226: the pending comment is carried to the
\* next entry; without a comma the loop ends.
JpObjectStep(t, afterInfo, obj1) ==
  IF afterInfo.hadComma
  THEN JpObjectLoop(t, afterInfo.pos, afterInfo.line, obj1, afterInfo.pending)
  ELSE JpClose(t, afterInfo.pos, afterInfo.line, obj1, afterInfo.pending, "}")
\* Lines 210, 215-221: obj[key] = value and the entry's comments
JpObjectEntry(t, key, beforeComment, value, afterInfo, obj) ==
  JpObjectStep(t, afterInfo,
               JpSetComment([obj EXCEPT !.items = JpPut(@, key.val.s, value.val)], key.val.s,
                            [before |-> beforeComment, after |-> afterInfo.inline]))
\* Lines 204-213: beforeComment and skipWSAfterValue(valueLine)
JpObjectAfter(t, key, preValue, value, obj, pendingBefore) ==
  IF ~value.ok THEN value
  ELSE JpObjectEntry(t, key,
                     JpJoin(SelectSeq(<<pendingBefore, preValue.text>>, LAMBDA c : c # <<>>)),
                     value, skipWSAfterValue(t, value.pos, value.line, preValue.line), obj)
\* Lines 208-209: valueLine and parseValue
JpObjectValue(t, key, preValue, obj, pendingBefore) ==
  JpObjectAfter(t, key, preValue, parseValue(t, preValue.pos, preValue.line), obj, pendingBefore)
\* Lines 200-201: expect(":") and the pre-value skipWS
JpObjectColon(t, key, colon, obj, pendingBefore) ==
  IF JpAt(t, colon.pos) # ":" THEN JpError(colon.pos, colon.line)
  ELSE JpObjectValue(t, key, skipWS(t, colon.pos + 1, colon.line), obj, pendingBefore)
\* Lines 198-199: the key and the skipWS after it, whose comments are dropped
JpObjectKey(t, key, obj, pendingBefore) ==
  IF ~key.ok THEN key
  ELSE JpObjectColon(t, key, skipWS(t, key.pos, key.line), obj, pendingBefore)
JpObjectLoop(t, pos, line, obj, pendingBefore) ==
  IF JpAt(t, pos) = "}" THEN JpClose(t, pos, line, obj, pendingBefore, "}")
  ELSE JpObjectKey(t, parseString(t, pos, line), obj, pendingBefore)

\* parseObject (lines 180-237), from its opening brace at pos
JpObjectOpen(t, obj, pendingBefore) ==
  IF JpAt(t, pendingBefore.pos) = "}"
  THEN JpOk(pendingBefore.pos + 1, pendingBefore.line,
            JpSetComment(obj, JpHash, [before |-> pendingBefore.text, after |-> <<>>]))
  ELSE JpObjectLoop(t, pendingBefore.pos, pendingBefore.line, obj, pendingBefore.text)
JpParseObject(t, pos, line) ==
  JpObjectOpen(t, JpValue("object", <<>>, <<>>, EmptyMap), skipWS(t, pos + 1, line))

\* The while loop of parseArray (lines 253-273), last step first; index is
\* Len(arr.items).
JpArrayStep(t, afterInfo, arr1) ==
  IF afterInfo.hadComma
  THEN JpArrayLoop(t, afterInfo.pos, afterInfo.line, arr1, afterInfo.pending)
  ELSE JpClose(t, afterInfo.pos, afterInfo.line, arr1, afterInfo.pending, "]")
JpArrayEntry(t, index, value, afterInfo, arr, pendingBefore) ==
  JpArrayStep(t, afterInfo,
              JpSetComment([arr EXCEPT !.items = Append(@, [key |-> index, val |-> value.val])],
                           index, [before |-> pendingBefore, after |-> afterInfo.inline]))
JpArrayAfter(t, valueLine, value, arr, pendingBefore) ==
  IF ~value.ok THEN value
  ELSE JpArrayEntry(t, JpIndexKey(Len(arr.items)), value,
                    skipWSAfterValue(t, value.pos, value.line, valueLine), arr, pendingBefore)
JpArrayLoop(t, pos, line, arr, pendingBefore) ==
  IF JpAt(t, pos) = "]" THEN JpClose(t, pos, line, arr, pendingBefore, "]")
  ELSE JpArrayAfter(t, line, parseValue(t, pos, line), arr, pendingBefore)

\* parseArray (lines 239-282), from its opening bracket at pos
JpArrayOpen(t, arr, pendingBefore) ==
  IF JpAt(t, pendingBefore.pos) = "]"
  THEN JpOk(pendingBefore.pos + 1, pendingBefore.line,
            JpSetComment(arr, JpHash, [before |-> pendingBefore.text, after |-> <<>>]))
  ELSE JpArrayLoop(t, pendingBefore.pos, pendingBefore.line, arr, pendingBefore.text)
JpParseArray(t, pos, line) ==
  JpArrayOpen(t, JpValue("array", <<>>, <<>>, EmptyMap), skipWS(t, pos + 1, line))

\* parseValue (lines 169-178)
parseValue(t, pos, line) ==
  LET ch == JpAt(t, pos)
  IN  CASE ch = "{" -> JpParseObject(t, pos, line)
        [] ch = "[" -> JpParseArray(t, pos, line)
        [] ch = "\"" -> parseString(t, pos, line)
        [] ch \in {"t", "f"} -> parseBool(t, pos, line)
        [] ch = "n" -> parseNull(t, pos, line)
        [] ch = "-" \/ isDigit(ch) -> parseNumber(t, pos, line)
        [] OTHER -> JpError(pos, line)

\* JsonParser.parse (lines 24-41), last step first: the header comment
\* replaces the "#" entry the container got while it was parsed; the position
\* reached is not compared with the length of the input.
JpIsContainer(v) == v.t \in {"object", "array"}
JpParseTrailer(after, v1) ==
  JpOk(after.pos, after.line,
       IF after.text # <<>> /\ JpIsContainer(v1)
       THEN JpSetComment(v1, JpHash, [JpGetComment(v1, JpHash) EXCEPT !.after = after.text])
       ELSE v1)
JpParseHeader(t, before, value) ==
  IF ~value.ok THEN value
  ELSE JpParseTrailer(skipWS(t, value.pos, value.line),
                      IF before.text # <<>> /\ JpIsContainer(value.val)
                      THEN JpSetComment(value.val, JpHash, [before |-> before.text, after |-> <<>>])
                      ELSE value.val)
JpParseValue(t, before) == JpParseHeader(t, before, parseValue(t, before.pos, before.line))
JsonParserParse(t) == JpParseValue(t, skipWS(t, 0, 0))

\* The standard JSON grammar (ECMA-404 / JSON.parse), the reference the
\* parser is compared with: a result is the value and the position after it.
StdOk(pos, v) == [ok |-> TRUE, pos |-> pos, val |-> v]
StdError == [ok |-> FALSE, pos |-> 0, val |-> JpNone]
StdHex == JpDigits \cup {"a", "b", "c", "d", "e", "f", "A", "B", "C", "D", "E", "F"}
StdControl == {"\n", "\t", "\r", "\f"}

RECURSIVE StdSkip(_, _)
StdSkip(t, pos) == IF JpAt(t, pos) \in JpBlank THEN StdSkip(t, pos + 1) ELSE pos

RECURSIVE StdStringLoop(_, _, _)
StdStringLoop(t, pos, result) ==
  LET ch == JpAt(t, pos)
      esc == JpAt(t, pos + 1)
  IN  IF ch = Undef \/ ch \in StdControl THEN StdError
      ELSE IF ch = "\"" THEN StdOk(pos + 1, JpValue("string", result, <<>>, EmptyMap))
      ELSE IF ch # "\\" THEN StdStringLoop(t, pos + 1, Append(result, ch))
      ELSE IF esc \in {"\"", "\\", "/", "b", "f", "n", "r", "t"}
      THEN StdStringLoop(t, pos + 2, Append(result, JpEscape(esc)))
      ELSE IF esc = "u" /\ pos + 6 <= Len(t) /\ \A i \in 2..5 : JpAt(t, pos + i) \in StdHex
      THEN StdStringLoop(t, pos + 6, result \o <<"\\u">> \o JpSlice(t, pos + 2, pos + 6))
      ELSE StdError
StdString(t, pos) == IF JpAt(t, pos) # "\"" THEN StdError ELSE StdStringLoop(t, pos + 1, <<>>)

StdNumber(t, start) ==
  LET p0 == IF JpAt(t, start) = "-" THEN start + 1 ELSE start
      p1 == IF JpAt(t, p0) = "0" THEN p0 + 1 ELSE JpDigitsEnd(t, p0)
      p2 == IF JpAt(t, p1) = "." THEN JpDigitsEnd(t, p1 + 1) ELSE p1
      p3 == IF JpAt(t, p2) \in {"e", "E"}
            THEN IF JpAt(t, p2 + 1) \in {"+", "-"} THEN p2 + 2 ELSE p2 + 1
            ELSE p2
      p4 == IF p3 # p2 THEN JpDigitsEnd(t, p3) ELSE p2
  IN  IF p1 = p0 \/ p2 = p1 + 1 \/ (p3 # p2 /\ p4 = p3) THEN StdError
      ELSE StdOk(p4, JpValue("number", JpSlice(t, start, p4), <<>>, EmptyMap))

StdWord(t, pos, word, ty) ==
  IF JpStartsWith(t, word, pos) THEN StdOk(pos + Len(word), JpValue(ty, <<>>, <<>>, EmptyMap))
  ELSE StdError

RECURSIVE StdValue(_, _)
RECURSIVE StdMembers(_, _, _)
RECURSIVE StdElements(_, _, _)

\* member (, member)* } from the position of a key on
StdMembers(t, pos, obj) ==
  LET key == StdString(t, pos)
      colon == StdSkip(t, key.pos)
      value == StdValue(t, StdSkip(t, colon + 1))
      next == StdSkip(t, value.pos)
      obj1 == [obj EXCEPT !.items = JpPut(@, key.val.s, value.val)]
  IN  IF ~key.ok THEN StdError
      ELSE IF JpAt(t, colon) # ":" THEN StdError
      ELSE IF ~value.ok THEN StdError
      ELSE IF JpAt(t, next) = "," THEN StdMembers(t, StdSkip(t, next + 1), obj1)
      ELSE IF JpAt(t, next) = "}" THEN StdOk(next + 1, obj1)
      ELSE StdError

\* element (, element)* ] from the position of an element on
StdElements(t, pos, arr) ==
  LET value == StdValue(t, pos)
      next == StdSkip(t, value.pos)
      arr1 == [arr EXCEPT !.items = Append(@, [key |-> JpIndexKey(Len(arr.items)),
                                                val |-> value.val])]
  IN  IF ~value.ok THEN StdError
      ELSE IF JpAt(t, next) = "," THEN StdElements(t, StdSkip(t, next + 1), arr1)
      ELSE IF JpAt(t, next) = "]" THEN StdOk(next + 1, arr1)
      ELSE StdError

StdValue(t, pos) ==
  LET ch == JpAt(t, pos)
      in == StdSkip(t, pos + 1)
  IN  CASE ch = "{" -> IF JpAt(t, in) = "}"
                       THEN StdOk(in + 1, JpValue("object", <<>>, <<>>, EmptyMap))
                       ELSE StdMembers(t, in, JpValue("object", <<>>, <<>>, EmptyMap))
        [] ch = "[" -> IF JpAt(t, in) = "]"
                       THEN StdOk(in + 1, JpValue("array", <<>>, <<>>, EmptyMap))
                       ELSE StdElements(t, in, JpValue("array", <<>>, <<>>, EmptyMap))
        [] ch = "\"" -> StdString(t, pos)
        [] ch = "t" -> StdWord(t, pos, <<"t", "r", "u", "e">>, "true")
        [] ch = "f" -> StdWord(t, pos, <<"f", "a", "l", "s", "e">>, "false")
        [] ch = "n" -> StdWord(t, pos, <<"n", "u", "l", "l">>, "null")
        [] ch = "-" \/ isDigit(ch) -> StdNumber(t, pos)
        [] OTHER -> StdError

\* JSON.parse(text): one value between white space, and nothing else.
StdJson(t) ==
  LET value == StdValue(t, StdSkip(t, 0))
  IN  IF value.ok /\ StdSkip(t, value.pos) = Len(t) THEN value ELSE StdError

\* The input texts: up to MaxJsonPieces pieces, one after the other.
JpPlainPieces ==
  { <<"[">>, <<"]">>, <<"{">>, <<"}">>, <<",">>, <<"\"", "a", "\"", ":">>, <<"\"", "a", "\"">>,
    <<"\"">>, <<"\\">>, <<"1">>, <<"0">>, <<"-">>, <<".">>, <<"e">>, <<" ">>,
    <<"t", "r", "u", "e">> }
RECURSIVE JpConcat(_)
JpConcat(ps) == IF ps = <<>> THEN <<>> ELSE Head(ps) \o JpConcat(Tail(ps))
JpTexts(pieces, maxPieces) ==
  {JpConcat(ps) : ps \in UNION {[1..n -> pieces] : n \in 0..maxPieces}}

OtherThanJsonParser == <<heap, ct, nOps, det, uw, js, ini, ym, ya, dg, fm, yh, md, xe, pe, cl, jc, je, ju, sj, xn, tq, xc, ro, ao, yn, pt>>

InitJsonParser ==
  /\ \E t \in JpTexts(JpPlainPieces, MaxJsonPieces) : jp = [pc |-> "text", text |-> t]
  /\ heap = Idle /\ ct = Idle /\ nOps = Idle /\ det = Idle /\ uw = Idle
  /\ js = Idle /\ ini = Idle /\ ym = Idle /\ ya = Idle /\ dg = Idle /\ fm = Idle
  /\ yh = Idle /\ md = Idle /\ xe = Idle /\ pe = Idle /\ cl = Idle /\ jc = Idle
  /\ je = Idle /\ ju = Idle /\ sj = Idle /\ xn = Idle /\ tq = Idle /\ xc = Idle
  /\ ro = Idle /\ ao = Idle /\ yn = Idle /\ pt = Idle

\* parseJson(input) (lines 10-13)
ParseJson ==
  /\ jp.pc = "text"
  /\ jp' = [pc |-> "parsed", text |-> jp.text, res |-> JsonParserParse(jp.text)]
  /\ UNCHANGED OtherThanJsonParser

NextJsonParser == ParseJson

SpecJsonParser == InitJsonParser /\ [][NextJsonParser]_vars

\* A text with no comment and no trailing comma.
JpHasTrailingComma(t) ==
  \E i \in 1..Len(t) : t[i] = "," /\ JpAt(t, StdSkip(t, i)) \in {"]", "}"}
JpPlain(t) == (\A i \in 1..Len(t) : t[i] # "/") /\ ~JpHasTrailingComma(t)

\* C12: on a text with no comment and no trailing comma parseJson succeeds
\* if and only if the text is standard JSON, and then returns the standard
\* parser's value with no comment metadata; every other text is an error.
C12_ParseJsonIsStandard ==
  (jp.pc = "parsed" /\ JpPlain(jp.text)) =>
    /\ jp.res.ok <=> StdJson(jp.text).ok
    /\ jp.res.ok => jp.res.val = StdJson(jp.text).val

(***************************************************************************)
(* 10. commentExtractor.ts: findUnquotedMarker                             *)
(***************************************************************************)

MaxMarkerLine == 5

\* The for loop of findUnquotedMarker (lines 22-35) from index i on.
RECURSIVE findUnquotedMarkerLoop(_, _, _, _, _)
findUnquotedMarkerLoop(line, marker, i, inSingle, inDouble) ==
  IF i >= Len(line) THEN -1
  ELSE LET ch == line[i + 1]
       IN  IF ch = "'" /\ ~inDouble
           THEN findUnquotedMarkerLoop(line, marker, i + 1, ~inSingle, inDouble)
           ELSE IF ch = "\"" /\ ~inSingle
           THEN IF i > 0 /\ line[i] = "\\"
                THEN findUnquotedMarkerLoop(line, marker, i + 1, inSingle, inDouble)
                ELSE findUnquotedMarkerLoop(line, marker, i + 1, inSingle, ~inDouble)
           ELSE IF ~inSingle /\ ~inDouble /\ JpStartsWith(line, marker, i) THEN i
           ELSE findUnquotedMarkerLoop(line, marker, i + 1, inSingle, inDouble)

\* The variant that takes every double quote as a toggle.
findUnquotedMarkerNoEscape(line, marker) ==
  LET RECURSIVE loop(_, _, _)
      loop(i, inSingle, inDouble) ==
        IF i >= Len(line) THEN -1
        ELSE IF line[i + 1] = "'" /\ ~inDouble THEN loop(i + 1, ~inSingle, inDouble)
        ELSE IF line[i + 1] = "\"" /\ ~inSingle THEN loop(i + 1, inSingle, ~inDouble)
        ELSE IF ~inSingle /\ ~inDouble /\ JpStartsWith(line, marker, i) THEN i
        ELSE loop(i + 1, inSingle, inDouble)
  IN  loop(0, FALSE, FALSE)

findUnquotedMarker(line, marker) == findUnquotedMarkerLoop(line, marker, 0, FALSE, FALSE)

\* The lines and the comment markers of the formats: # (YAML, TOML), ; (INI)
\* and // (JSONC).
MarkerChars == {"'", "\"", "\\", "#", "/", "a"}
MarkerLines(maxLen) == UNION {[1..n -> MarkerChars] : n \in 0..maxLen}
Markers == {<<"#">>, <<"/", "/">>}

OtherThanMarker == <<heap, ct, nOps, det, uw, js, ini, ym, ya, dg, jp, yh, md, xe, pe, cl, jc, je, ju, sj, xn, tq, xc, ro, ao, yn, pt>>

InitMarker ==
  /\ \E l \in MarkerLines(MaxMarkerLine), m \in Markers :
       fm = [pc |-> "call", line |-> l, marker |-> m, res |-> -1]
  /\ heap = Idle /\ ct = Idle /\ nOps = Idle /\ det = Idle /\ uw = Idle
  /\ js = Idle /\ ini = Idle /\ ym = Idle /\ ya = Idle /\ dg = Idle /\ jp = Idle
  /\ yh = Idle /\ md = Idle /\ xe = Idle /\ pe = Idle /\ cl = Idle /\ jc = Idle
  /\ je = Idle /\ ju = Idle /\ sj = Idle /\ xn = Idle /\ tq = Idle /\ xc = Idle
  /\ ro = Idle /\ ao = Idle /\ yn = Idle /\ pt = Idle

FindUnquotedMarker ==
  /\ fm.pc = "call"
  /\ fm' = [fm EXCEPT !.pc = "done", !.res = findUnquotedMarker(fm.line, fm.marker)]
  /\ UNCHANGED OtherThanMarker

NextMarker == FindUnquotedMarker

SpecMarker == InitMarker /\ [][NextMarker]_vars

\* The quote state before index i: which of the two quotes is open after the
\* characters 0..i-1, toggled as the claim says.
RECURSIVE MarkerQuoteState(_, _)
MarkerQuoteState(line, i) ==
  IF i = 0 THEN [single |-> FALSE, double |-> FALSE]
  ELSE LET q == MarkerQuoteState(line, i - 1)
           ch == line[i]
       IN  IF ch = "'" /\ ~q.double THEN [q EXCEPT !.single = ~@]
           ELSE IF ch = "\"" /\ ~q.single /\ ~(i > 1 /\ line[i - 1] = "\\")
           THEN [q EXCEPT !.double = ~@]
           ELSE q
MarkerUnquotedAt(line, marker, i) ==
  /\ JpStartsWith(line, marker, i)
  /\ ~MarkerQuoteState(line, i).single /\ ~MarkerQuoteState(line, i).double

\* C13: the result is the smallest index at which the marker starts while
\* neither quote is open, and -1 when there is no such index.
C13_FirstUnquotedMarker ==
  fm.pc = "done" =>
    LET hits == {i \in 0..(Len(fm.line) - 1) : MarkerUnquotedAt(fm.line, fm.marker, i)}
    IN  IF hits = {} THEN fm.res = -1
        ELSE fm.res \in hits /\ \A i \in hits : fm.res <= i

\* A double quote closed only after an escaped one, then the marker.
C13_Witness ==
  /\ fm.pc = "done" /\ fm.marker = <<"#">>
  /\ fm.line = <<"\"", "\\", "\"", "\"", "#">> /\ fm.res = 4

(***************************************************************************)
(* 11. YAML plugin: the document header and the first key of the root map  *)
(***************************************************************************)

MaxHeaderLines == 2

\* The comment of n lines written at one place of the document; every place
\* has its own words.
HeaderText(place, n) ==
  SubSeq(CASE place = "doc" -> <<"d1", "d2", "d3">>
           [] place = "map" -> <<"m1", "m2", "m3">>
           [] place = "key" -> <<"k1", "k2", "k3">>
           [] place = "inline" -> <<"i1", "i2", "i3">>
           [] place = "next" -> <<"n1", "n2", "n3">>
           [] OTHER -> <<"t1", "t2", "t3">>, 1, n)

\* A parsed Document whose root is a map of scalars a, or a and b, with a
\* comment of 0..maxLines lines on the document, on the map, on the first
\* key, on the second key and after the document, and possibly one behind
\* the first value.
HeaderDoc(nKeys, n) ==
  [commentBefore |-> toAst(HeaderText("doc", n.doc)),
   comment |-> toAst(HeaderText("trailing", n.trailing)),
   contents |->
     YamlAstNode("map", SubSeq(YamlMapKeys, 1, nKeys),
       [i \in 1..nKeys |-> IF i = 1 THEN toAst(HeaderText("key", n.key))
                           ELSE toAst(HeaderText("next", n.next))],
       [i \in 1..nKeys |->
          YamlAstNode("scalar", <<>>, <<>>, <<>>, <<>>,
                      IF i = 1 THEN toAst(HeaderText("inline", n.inline)) ELSE <<>>)],
       toAst(HeaderText("map", n.map)), <<>>)]
HeaderDocs(maxLines) ==
  {HeaderDoc(nKeys, n) :
     nKeys \in 1..2,
     n \in [doc : 0..1, map : 0..maxLines, key : 0..maxLines, inline : 0..1,
            next : 0..1, trailing : 0..1]}

OtherThanYamlHeader == <<heap, ct, nOps, det, uw, js, ini, ym, ya, dg, jp, fm, md, xe, pe, cl, jc, je, ju, sj, xn, tq, xc, ro, ao, yn, pt>>

InitYamlHeader ==
  /\ \E d \in HeaderDocs(MaxHeaderLines) : yh = [pc |-> "parsed", doc |-> d]
  /\ heap = Idle /\ ct = Idle /\ nOps = Idle /\ det = Idle /\ uw = Idle
  /\ js = Idle /\ ini = Idle /\ ym = Idle /\ ya = Idle /\ dg = Idle
  /\ jp = Idle /\ fm = Idle /\ md = Idle /\ xe = Idle /\ pe = Idle /\ cl = Idle
  /\ jc = Idle /\ je = Idle /\ ju = Idle /\ sj = Idle /\ xn = Idle /\ tq = Idle
  /\ xc = Idle /\ ro = Idle /\ ao = Idle /\ yn = Idle /\ pt = Idle

\* YamlPlugin.decode: toJS and extractDocComments on the parsed Document.
HeaderDecode ==
  /\ yh.pc = "parsed"
  /\ yh' = [pc |-> "decoded", doc |-> yh.doc, v |-> yamlDecodeDoc(yh.doc)]
  /\ UNCHANGED OtherThanYamlHeader

\* YamlPlugin.encode(decoded): the Document built and decorated.
HeaderEncode ==
  /\ yh.pc = "decoded"
  /\ yh' = [pc |-> "encoded", doc |-> yh.doc, v |-> yh.v, out |-> yamlEncodeDoc(yh.v)]
  /\ UNCHANGED OtherThanYamlHeader

NextYamlHeader ==
  \/ HeaderDecode
  \/ HeaderEncode

SpecYamlHeader == InitYamlHeader /\ [][NextYamlHeader]_vars

\* What extractCommentsFromNode harvested as the first key's before, what the
\* decoded value has as header and as the first key's entry.
HeaderHarvested ==
  YamlGetComment(extractCommentsFromNode(yh.doc.contents, YamlToJS(yh.doc.contents)), "a").before
HeaderPromoted == YamlGetComment(yh.v, "#").before
HeaderFirstKey == YamlGetComment(yh.v, "a")
HeaderLines(text) == {text[i] : i \in 1..Len(text)}
\* How often line l stands in the comments of an encoded Document.
HeaderCount(out, l) ==
  LET texts == <<norm(out.commentBefore), norm(out.comment), norm(out.contents.commentBefore),
                 norm(out.contents.comment)>>
                 \o [i \in 1..Len(out.contents.keys) |-> norm(out.contents.keyBefore[i])]
                 \o [i \in 1..Len(out.contents.keys) |-> norm(out.contents.vals[i].comment)]
  IN  Cardinality(UNION {{<<i, j>> : j \in {x \in 1..Len(texts[i]) : texts[i][x] = l}} :
                           i \in 1..Len(texts)})

\* C14: the text promoted to "#".before is not in the first key's before as
\* well: a harvested before equal to the header leaves the key no before (and
\* no entry when it has no after), one that starts with the header and a
\* newline leaves the remainder; encode writes each header line once.
C14_HeaderNotDuplicated ==
  (yh.pc \in {"decoded", "encoded"} /\ HeaderPromoted # <<>>) =>
    /\ HeaderLines(HeaderPromoted) \cap HeaderLines(HeaderFirstKey.before) = {}
    /\ HeaderHarvested = HeaderPromoted =>
         /\ HeaderFirstKey.before = <<>>
         /\ HeaderFirstKey.after = <<>> => ~MapHas(yh.v.cm, "a")
    /\ (Len(HeaderHarvested) > Len(HeaderPromoted)
          /\ SubSeq(HeaderHarvested, 1, Len(HeaderPromoted)) = HeaderPromoted) =>
         HeaderPromoted \o HeaderFirstKey.before = HeaderHarvested
    /\ yh.pc = "encoded" => \A l \in HeaderLines(HeaderPromoted) : HeaderCount(yh.out, l) = 1

\* The map's comment was promoted, the first key keeps its own comment and
\* its inline comment, and the value was encoded again.
C14_Witness ==
  /\ yh.pc = "encoded"
  /\ HeaderPromoted = <<"m1", "m2">>
  /\ HeaderFirstKey = [before |-> <<"k1">>, after |-> <<"i1">>]

(***************************************************************************)
(* 12. YAML plugin, multi-document texts: YamlPlugin.decode / encode of an *)
(*     array carrying MULTI_DOC                                            *)
(***************************************************************************)

MaxMultiDocs == 2

\* A YAML text: document lines (the pairs of the document printed there)
\* and `---` separator lines.
MultiDocLine(items) == [kind |-> "doc", items |-> items]
MultiSepLine == [kind |-> "sep", items |-> <<>>]

\* chunks.join("---\n")
RECURSIVE MultiJoin(_)
MultiJoin(chunks) ==
  IF Len(chunks) = 0 THEN <<>>
  ELSE IF Len(chunks) = 1 THEN chunks[1]
  ELSE chunks[1] \o <<MultiSepLine>> \o MultiJoin(Tail(chunks))

\* parseAllDocuments(input): a document ends at a separator line; the pairs of
\* adjacent document lines with no separator between them are one document.
RECURSIVE parseAllDocuments(_, _, _)
parseAllDocuments(text, i, cur) ==
  IF i > Len(text) THEN <<cur>>
  ELSE IF text[i].kind = "sep" THEN <<cur>> \o parseAllDocuments(text, i + 1, <<>>)
  ELSE parseAllDocuments(text, i + 1, cur \o text[i].items)

\* The array YamlPlugin.decode returns for the documents docs: the JS value
\* of each with its anchor maps, MULTI_DOC set when there are several.
multiDecode(docs) ==
  [docs |-> [i \in 1..Len(docs) |-> yamlDecodeAnchors(docs[i])],
   multi |-> Len(docs) > 1]

\* YamlPlugin.encode, the MULTI_DOC branch: the printed chunk of every item.
multiEncodeChunks(data) ==
  [i \in 1..Len(data.docs) |-> <<MultiDocLine(applyAnchorsToNode(data.docs[i]))>>]

\* The input texts: 2..MaxMultiDocs documents of one pair each.
MultiSources(maxDocs) == UNION {[1..n -> AnchorDocs(1)] : n \in 2..maxDocs}

OtherThanMultiDoc == <<heap, ct, nOps, det, uw, js, ini, ym, ya, dg, jp, fm, yh, xe, pe, cl, jc, je, ju, sj, xn, tq, xc, ro, ao, yn, pt>>

InitMultiDoc ==
  /\ \E s \in MultiSources(MaxMultiDocs) : md = [pc |-> "parsed", src |-> s]
  /\ heap = Idle /\ ct = Idle /\ nOps = Idle /\ det = Idle /\ uw = Idle
  /\ js = Idle /\ ini = Idle /\ ym = Idle /\ ya = Idle /\ dg = Idle
  /\ jp = Idle /\ fm = Idle /\ yh = Idle /\ xe = Idle /\ pe = Idle /\ cl = Idle
  /\ jc = Idle /\ je = Idle /\ ju = Idle /\ sj = Idle /\ xn = Idle /\ tq = Idle
  /\ xc = Idle /\ ro = Idle /\ ao = Idle /\ yn = Idle /\ pt = Idle

\* YamlPlugin.decode of the text.
MultiDecode ==
  /\ md.pc = "parsed"
  /\ md' = [pc |-> "decoded", src |-> md.src, d1 |-> multiDecode(md.src)]
  /\ UNCHANGED OtherThanMultiDoc

\* YamlPlugin.encode of the decoded array, which carries MULTI_DOC: every
\* item is printed on its own and the chunks are joined. doc.toString() throws
\* on an alias with no anchor before it (the library's verifyAliasOrder).
MultiEncode ==
  /\ md.pc = "decoded"
  /\ LET chunks == multiEncodeChunks(md.d1)
         resolves == \A i \in 1..Len(chunks) : AliasesResolve(chunks[i][1].items, 1, {}).ok
     IN  \/ /\ resolves
            /\ md' = [pc |-> "encoded", src |-> md.src, d1 |-> md.d1, out |-> MultiJoin(chunks)]
         \/ /\ ~resolves
            /\ \E thrown \in BOOLEAN :
                 md' = [pc |-> IF thrown THEN "encode threw" ELSE "encoded",
                        src |-> md.src, d1 |-> md.d1, out |-> MultiJoin(chunks)]
  /\ UNCHANGED OtherThanMultiDoc

\* YamlPlugin.decode of the printed text: the parse fails on an alias with
\* no anchor before it in its document.
MultiDecodeAgain ==
  /\ md.pc = "encoded"
  /\ LET docs == parseAllDocuments(md.out, 1, <<>>)
     IN  md' = IF \A i \in 1..Len(docs) : AliasesResolve(docs[i], 1, {}).ok
               THEN [pc |-> "done", src |-> md.src, d1 |-> md.d1, out |-> md.out,
                     d2 |-> multiDecode(docs)]
               ELSE [pc |-> "decode threw", src |-> md.src, d1 |-> md.d1, out |-> md.out]
  /\ UNCHANGED OtherThanMultiDoc

NextMultiDoc ==
  \/ MultiDecode
  \/ MultiEncode
  \/ MultiDecodeAgain

SpecMultiDoc == InitMultiDoc /\ [][NextMultiDoc]_vars

\* The data of a value: its keys and values without the anchor maps.
RECURSIVE MultiData(_)
MultiData(obj) ==
  [t |-> obj.t, s |-> obj.s, keys |-> obj.keys,
   vals |-> [i \in 1..Len(obj.vals) |-> MultiData(obj.vals[i])]]
MultiSeparators(text) == Cardinality({i \in 1..Len(text) : text[i].kind = "sep"})

\* C15: encode of a MULTI_DOC array of N >= 2 documents prints every
\* document on its own, joined by exactly N-1 `---` lines, and decoding the
\* text gives N documents with the data of the originals and isMultiDocument.
C15_MultiDocRoundTrip ==
  md.pc \in {"done", "encode threw", "decode threw"} =>
    /\ md.pc = "done"
    /\ MultiSeparators(md.out) = Len(md.d1.docs) - 1
    /\ Len(md.d2.docs) = Len(md.d1.docs)
    /\ md.d2.multi
    /\ \A i \in 1..Len(md.d1.docs) : MultiData(md.d2.docs[i]) = MultiData(md.d1.docs[i])

(***************************************************************************)
(* 13. INI plugin: the compliance gate of IniPlugin.decode                 *)
(***************************************************************************)

IniNonBlank(text) == Cardinality({i \in 1..Len(text) : text[i].kind # "blank"})
IniMatching(text) == Cardinality({i \in 1..Len(text) : text[i].kind \notin {"blank", "junk"}})
IniAccepted == ini.pc \in {"decoded", "encoded", "done", "failed"}

\* C16 as stated: decode accepts a text if and only if at least 80% of
\* its non-blank lines are INI lines.
C16_GateAsStated ==
  ini.pc # "text" =>
    (IniAccepted <=> 5 * IniMatching(ini.text) >= 4 * IniNonBlank(ini.text))

\* C16: decode accepts a text if and only if it has a non-blank line and at
\* least 80% of its non-blank lines are INI lines; any other text is rejected
\* and not parsed.
C16_GateThreshold ==
  ini.pc # "text" =>
    /\ IniAccepted <=>
         /\ IniNonBlank(ini.text) > 0
         /\ 5 * IniMatching(ini.text) >= 4 * IniNonBlank(ini.text)
    /\ ~IniAccepted => ini.pc = "rejected"

\* A text of five non-blank lines, four of them INI lines, was accepted.
C16_Witness ==
  /\ ini.pc = "decoded"
  /\ IniNonBlank(ini.text) = 5
  /\ IniMatching(ini.text) = 4

(***************************************************************************)
(* 14. XML plugin: XmlPlugin.encode of a root value                        *)
(***************************************************************************)

MaxXmlKeys == 2

\* A JS value: null, undefined, a boolean, a number, a string (s is its
\* text), or an object / array of keys and leaf values.
XmlValue(t, s, keys, vals) == [t |-> t, s |-> s, keys |-> keys, vals |-> vals]
XmlLeaves == {XmlValue("number", "0", <<>>, <<>>), XmlValue("number", "1", <<>>, <<>>),
              XmlValue("string", "s", <<>>, <<>>)}
XmlScalars ==
  XmlLeaves \cup {XmlValue("null", "null", <<>>, <<>>), XmlValue("undefined", "undefined", <<>>, <<>>),
                  XmlValue("boolean", "true", <<>>, <<>>), XmlValue("boolean", "false", <<>>, <<>>),
                  XmlValue("string", "", <<>>, <<>>)}
XmlKeys == {"a", "b", "c"}
XmlIndex(i) == CASE i = 1 -> "0" [] i = 2 -> "1" [] i = 3 -> "2" [] OTHER -> "3"
XmlObjects(maxKeys) ==
  {XmlValue("object", "", ks, vs) :
     ks \in {k \in UNION {[1..n -> XmlKeys] : n \in 0..maxKeys} :
               \A i, j \in 1..Len(k) : i # j => k[i] # k[j]},
     vs \in UNION {[1..n -> XmlLeaves] : n \in 0..maxKeys}}
XmlArrays(maxKeys) ==
  {XmlValue("array", "", [i \in 1..Len(vs) |-> XmlIndex(i)], vs) :
     vs \in UNION {[1..n -> XmlLeaves] : n \in 0..maxKeys}}
\* The root values considered; none carries comment metadata.
XmlRoots(maxKeys) ==
  XmlScalars
    \cup {o \in XmlObjects(maxKeys) : Len(o.keys) = Len(o.vals)}
    \cup XmlArrays(maxKeys)

\* typeof data, with every answer "object" (a guard that never fires)
XmlTypeofObject(v) == "object"

\* typeof data
XmlTypeof(v) == IF v.t \in {"null", "object", "array"} THEN "object" ELSE v.t

\* xmlBuilder.build(data): one element line per own key, in order.
xmlBuild(v) == [i \in 1..Len(v.keys) |-> [tag |-> v.keys[i], text |-> v.vals[i].s]]

XmlShapeError == "query result must be an object to convert to XML"

\* XmlPlugin.encode(data): the error thrown, or the lines returned. With no
\* comment metadata on data, reinsertCommentsDeep returns the built text.
xmlEncode(v) ==
  IF XmlTypeof(v) # "object" THEN [threw |-> TRUE, error |-> XmlShapeError, out |-> <<>>]
  ELSE IF v.t = "null" THEN [threw |-> FALSE, error |-> "", out |-> <<>>]
  ELSE [threw |-> FALSE, error |-> "", out |-> xmlBuild(v)]

OtherThanXmlEncode == <<heap, ct, nOps, det, uw, js, ini, ym, ya, dg, jp, fm, yh, md, pe, cl, jc, je, ju, sj, xn, tq, xc, ro, ao, yn, pt>>

InitXmlEncode ==
  /\ \E v \in XmlRoots(MaxXmlKeys) : xe = [pc |-> "call", data |-> v]
  /\ heap = Idle /\ ct = Idle /\ nOps = Idle /\ det = Idle /\ uw = Idle
  /\ js = Idle /\ ini = Idle /\ ym = Idle /\ ya = Idle /\ dg = Idle
  /\ jp = Idle /\ fm = Idle /\ yh = Idle /\ md = Idle /\ pe = Idle /\ cl = Idle
  /\ jc = Idle /\ je = Idle /\ ju = Idle /\ sj = Idle /\ xn = Idle /\ tq = Idle
  /\ xc = Idle /\ ro = Idle /\ ao = Idle /\ yn = Idle /\ pt = Idle

\* XmlPlugin.encode(data)
XmlEncode ==
  /\ xe.pc = "call"
  /\ xe' = [pc |-> "done", data |-> xe.data, res |-> xmlEncode(xe.data)]
  /\ UNCHANGED OtherThanXmlEncode

NextXmlEncode == XmlEncode

SpecXmlEncode == InitXmlEncode /\ [][NextXmlEncode]_vars

\* C17 as stated: encode throws the shape error for every root that is not
\* an object or array, null included.
C17_NonObjectFailsAsStated ==
  (xe.pc = "done" /\ xe.data.t \notin {"object", "array"}) =>
    (xe.res.threw /\ xe.res.error = XmlShapeError)

\* C17: encode throws the shape error and returns no text for every root
\* that is undefined, a boolean, a number or a string; for null it returns
\* the empty text; in neither case is there an element in what it returns.
C17_NonObjectFails ==
  (xe.pc = "done" /\ xe.data.t \notin {"object", "array"}) =>
    /\ xe.res.out = <<>>
    /\ xe.res.threw <=> xe.data.t # "null"
    /\ xe.res.threw => xe.res.error = XmlShapeError

\* encode of the string "s" threw.
C17_Witness ==
  /\ xe.pc = "done"
  /\ xe.data.t = "string"
  /\ xe.data.s = "s"
  /\ xe.res.threw

(***************************************************************************)
(* 15. index.ts: parse(input, format) and encode(data, format)             *)
(***************************************************************************)

\* A format string is the sequence of its characters.
UpperChars == <<"A", "C", "E", "I", "J", "L", "M", "N", "O", "P", "S", "T", "V", "X", "Y">>
LowerChars == <<"a", "c", "e", "i", "j", "l", "m", "n", "o", "p", "s", "t", "v", "x", "y">>
LowerChar(c) ==
  IF \E i \in 1..Len(UpperChars) : UpperChars[i] = c
  THEN LowerChars[CHOOSE i \in 1..Len(UpperChars) : UpperChars[i] = c]
  ELSE c
\* s.toLowerCase()
toLowerCase(s) == [i \in 1..Len(s) |-> LowerChar(s[i])]

\* plugin.name, character by character.
PluginChars(p) ==
  CASE p = "JSON" -> <<"J", "S", "O", "N">>
    [] p = "YAML" -> <<"Y", "A", "M", "L">>
    [] p = "XML" -> <<"X", "M", "L">>
    [] p = "TOML" -> <<"T", "O", "M", "L">>
    [] p = "INI" -> <<"I", "N", "I">>
    [] p = "TEXT" -> <<"T", "E", "X", "T">>
    [] p = "PLAINTEXT" -> <<"P", "L", "A", "I", "N", "T", "E", "X", "T">>

\* plugins.find(p => p.name === format): no case folding
getPluginByNameExact(format) ==
  LET found == SelectSeq(Plugins, LAMBDA p : PluginChars(p) = format)
  IN  IF Len(found) > 0 THEN found[1] ELSE Undef

\* plugins.find(p => p.name.toLowerCase() === format.toLowerCase())
getPluginByName(format) ==
  LET found == SelectSeq(Plugins, LAMBDA p : toLowerCase(PluginChars(p)) = toLowerCase(format))
  IN  IF Len(found) > 0 THEN found[1] ELSE Undef

\* Whether plugin.decode(input, {inputFormat: format || ""}) returns: TEXT and
\* PLAINTEXT look at inputFormat.toLowerCase() only.
formatDecodeOK(p, c) ==
  IF p \in {"TEXT", "PLAINTEXT"}
  THEN toLowerCase(c.format) = toLowerCase(PluginChars(p))
  ELSE p \in c.accepts

\* The decode calls detectPlugin(plugins, undefined, input, {}) makes: the
\* sniffed plugin's, then on a failed sniff every plugin's.
formatDetectCalls(r) ==
  (IF r.sniffed # Undef THEN <<[plugin |-> r.sniffed, op |-> "decode"]>> ELSE <<>>)
    \o (IF r.brute THEN [i \in 1..Len(Plugins) |-> [plugin |-> Plugins[i], op |-> "decode"]]
        ELSE <<>>)

FormatUnknown == "Unknown format"
FormatUndetected == "Could not auto-detect input format"

\* parse(input, format): the plugin chosen, the error thrown ("" for none,
\* "plugin" for one thrown by the plugin's decode) and the plugin calls made.
parse(c) ==
  IF c.format # <<>>
  THEN LET plugin == getPluginByName(c.format)
       IN  IF plugin = Undef
           THEN [plugin |-> Undef, error |-> FormatUnknown, calls |-> <<>>]
           ELSE [plugin |-> plugin,
                 error |-> IF formatDecodeOK(plugin, c) THEN "" ELSE "plugin",
                 calls |-> <<[plugin |-> plugin, op |-> "decode"]>>]
  ELSE LET r == detectPlugin([filename |-> Undef, hasInput |-> TRUE, input |-> c.input,
                              inputFormat |-> "", accepts |-> c.accepts])
       IN  IF r.plugin = Undef
           THEN [plugin |-> Undef, error |-> FormatUndetected, calls |-> formatDetectCalls(r)]
           ELSE [plugin |-> r.plugin,
                 error |-> IF formatDecodeOK(r.plugin, c) THEN "" ELSE "plugin",
                 calls |-> Append(formatDetectCalls(r), [plugin |-> r.plugin, op |-> "decode"])]

\* encode(data, format); c.accepts holds the plugins whose encode takes data.
encode(c) ==
  LET plugin == getPluginByName(c.format)
  IN  IF plugin = Undef
      THEN [plugin |-> Undef, error |-> FormatUnknown, calls |-> <<>>]
      ELSE [plugin |-> plugin,
            error |-> IF plugin \in c.accepts THEN "" ELSE "plugin",
            calls |-> <<[plugin |-> plugin, op |-> "encode"]>>]

\* The format strings considered: every spelling of every plugin name in
\* upper and lower case letters, the empty string, and names of no plugin.
FormatSpellings(p) ==
  {[i \in 1..Len(PluginChars(p)) |->
      IF i \in low THEN LowerChar(PluginChars(p)[i]) ELSE PluginChars(p)[i]] :
     low \in SUBSET (1..Len(PluginChars(p)))}
FormatStrings ==
  UNION {FormatSpellings(p) : p \in PluginNames}
    \cup {<<>>, <<"c", "s", "v">>, <<"C", "S", "V">>, <<"j", "s", "o">>,
          <<"J", "S", "O", "N", "L">>, <<"t", "e", "x">>}
\* The texts and values considered, each with the plugins that take it.
FormatAccepts == {{}, {"JSON"}, {"YAML"}, {"YAML", "TOML"}, {"XML", "INI"}, PluginNames}
FormatCalls ==
  {c \in [op : {"parse"}, format : FormatStrings, input : Texts(1) \cup {EmptyText},
          accepts : FormatAccepts \ {PluginNames}] :
     c.input = EmptyText => c.accepts = {"YAML", "TOML"}}
    \cup [op : {"encode"}, format : FormatStrings, input : {EmptyText}, accepts : FormatAccepts]

OtherThanFormat == <<heap, ct, nOps, det, uw, js, ini, ym, ya, dg, jp, fm, yh, md, xe, cl, jc, je, ju, sj, xn, tq, xc, ro, ao, yn, pt>>

InitFormat ==
  /\ \E c \in FormatCalls : pe = [pc |-> "call", call |-> c]
  /\ heap = Idle /\ ct = Idle /\ nOps = Idle /\ det = Idle /\ uw = Idle
  /\ js = Idle /\ ini = Idle /\ ym = Idle /\ ya = Idle /\ dg = Idle
  /\ jp = Idle /\ fm = Idle /\ yh = Idle /\ md = Idle /\ xe = Idle /\ cl = Idle
  /\ jc = Idle /\ je = Idle /\ ju = Idle /\ sj = Idle /\ xn = Idle /\ tq = Idle
  /\ xc = Idle /\ ro = Idle /\ ao = Idle /\ yn = Idle /\ pt = Idle

\* parse(input, format)
Parse ==
  /\ pe.pc = "call" /\ pe.call.op = "parse"
  /\ pe' = [pc |-> "done", call |-> pe.call, res |-> parse(pe.call)]
  /\ UNCHANGED OtherThanFormat

\* encode(data, format)
Encode ==
  /\ pe.pc = "call" /\ pe.call.op = "encode"
  /\ pe' = [pc |-> "done", call |-> pe.call, res |-> encode(pe.call)]
  /\ UNCHANGED OtherThanFormat

NextFormat ==
  \/ Parse
  \/ Encode

SpecFormat == InitFormat /\ [][NextFormat]_vars

\* Two strings equal but for the case of their letters.
FormatSameLetters(a, b) ==
  /\ Len(a) = Len(b)
  /\ \A i \in 1..Len(a) :
       \/ a[i] = b[i]
       \/ \E j \in 1..Len(UpperChars) : {a[i], b[i]} = {UpperChars[j], LowerChars[j]}
FormatNamed(format) == {p \in PluginNames : FormatSameLetters(PluginChars(p), format)}
FormatSelects(res, format) ==
  /\ FormatNamed(format) # {} =>
       /\ res.plugin \in FormatNamed(format)
       /\ Len(res.calls) = 1 /\ res.calls[1].plugin = res.plugin
       /\ res.error # FormatUnknown
  /\ FormatNamed(format) = {} =>
       /\ res.plugin = Undef
       /\ res.error = FormatUnknown
       /\ res.calls = <<>>

\* C18 as stated: parse and encode call the plugin named format, letter case
\* aside, and with no such plugin throw the unknown-format error with no
\* decode or encode made.
C18_SelectByNameAsStated ==
  pe.pc = "done" => FormatSelects(pe.res, pe.call.format)

\* C18: the same for encode and for parse with a format that is not the
\* empty string; parse with the empty string detects the format from the
\* text as with no format given, and never throws the unknown-format error.
C18_SelectByName ==
  pe.pc = "done" =>
    /\ (pe.call.op = "encode" \/ pe.call.format # <<>>) => FormatSelects(pe.res, pe.call.format)
    /\ (pe.call.op = "parse" /\ pe.call.format = <<>>) =>
         /\ pe.res.error # FormatUnknown
         /\ pe.res.plugin = detectPlugin([filename |-> Undef, hasInput |-> TRUE,
                                          input |-> pe.call.input, inputFormat |-> "",
                                          accepts |-> pe.call.accepts]).plugin

\* parse with the format "jSoN" called JSON's decode, and nothing else.
C18_Witness ==
  /\ pe.pc = "done" /\ pe.call.op = "parse"
  /\ pe.call.format = <<"j", "S", "o", "N">>
  /\ pe.res.calls = <<[plugin |-> "JSON", op |-> "decode"]>>

(***************************************************************************)
(* 16. comments.ts with object identity: cloneComments and later changes   *)
(***************************************************************************)

MaxCloneOps == 3

CloneObjects == {"source", "target"}
CloneKeys == {"a", "#"}
CloneTexts == {"c1", "c2"}
\* The CommentEntry literals passed to setComment.
CloneEntries ==
  {[before |-> b, after |-> a] : b \in CloneTexts \cup {Undef}, a \in {"c1", Undef}}
    \ {[before |-> Undef, after |-> Undef]}

\* The store: ents[i] is a CommentEntry object, maps[m] a CommentMap object
\* (key -> index of its entry, 0 for none), owner[o] the map obj[COMMENTS]
\* refers to (0 for none).
CloneNoMap == [k \in CloneKeys |-> 0]
CloneHasComments(c, o) == c.owner[o] # 0
\* getComment(obj, key): the entry object itself, 0 for undefined
CloneGetComment(c, o, k) == IF CloneHasComments(c, o) THEN c.maps[c.owner[o]][k] ELSE 0
\* What getComment returns for every key, by value.
CloneView(c, o) ==
  [k \in CloneKeys |->
     IF CloneGetComment(c, o, k) = 0 THEN [before |-> Undef, after |-> Undef]
     ELSE c.ents[CloneGetComment(c, o, k)]]

\* setComment(obj, key, entry) with a new entry object
cloneSetComment(c, o, k, e) ==
  LET c1 == IF CloneHasComments(c, o) THEN c
            ELSE [c EXCEPT !.maps = Append(@, CloneNoMap), !.owner[o] = Len(c.maps) + 1]
  IN  [c1 EXCEPT !.ents = Append(@, e), !.maps[c1.owner[o]][k] = Len(c1.ents) + 1]

\* cloneComments(source, target): setComments(target, { ...map }), a new map
\* object holding the entry objects of the source's map.
cloneCommentsShallow(c) ==
  IF CloneHasComments(c, "source")
  THEN [c EXCEPT !.maps = Append(@, c.maps[c.owner["source"]]),
                 !.owner["target"] = Len(c.maps) + 1]
  ELSE c

OtherThanClone == <<heap, ct, nOps, det, uw, js, ini, ym, ya, dg, jp, fm, yh, md, xe, pe, jc, je, ju, sj, xn, tq, xc, ro, ao, yn, pt>>

InitClone ==
  /\ cl = [pc |-> "open", ents |-> <<>>, maps |-> <<>>,
           owner |-> [o \in CloneObjects |-> 0], n |-> 0,
           touched |-> {}, snap |-> [o \in CloneObjects |-> CloneView([owner |-> [p \in CloneObjects |-> 0]], o)]]
  /\ heap = Idle /\ ct = Idle /\ nOps = Idle /\ det = Idle /\ uw = Idle
  /\ js = Idle /\ ini = Idle /\ ym = Idle /\ ya = Idle /\ dg = Idle
  /\ jp = Idle /\ fm = Idle /\ yh = Idle /\ md = Idle /\ xe = Idle /\ pe = Idle
  /\ jc = Idle /\ je = Idle /\ ju = Idle /\ sj = Idle /\ xn = Idle /\ tq = Idle
  /\ xc = Idle /\ ro = Idle /\ ao = Idle /\ yn = Idle /\ pt = Idle

\* After the clone, touched holds the containers changed through since.
CloneTouch(c, o) == IF c.pc = "cloned" THEN [c EXCEPT !.touched = @ \cup {o}] ELSE c

\* setComment(o, k, e)
CloneSetComment ==
  /\ cl.n < MaxCloneOps
  /\ \E o \in CloneObjects, k \in CloneKeys, e \in CloneEntries :
       cl' = [CloneTouch(cloneSetComment(cl, o, k, e), o) EXCEPT !.n = @ + 1]
  /\ UNCHANGED OtherThanClone

\* getComment(o, k).before = text, or .after = text: the entry changed in place
CloneModifyInPlace ==
  /\ cl.n < MaxCloneOps
  /\ \E o \in CloneObjects, k \in CloneKeys, f \in {"before", "after"}, text \in CloneTexts :
       /\ CloneGetComment(cl, o, k) # 0
       /\ cl' = [CloneTouch([cl EXCEPT !.ents[CloneGetComment(cl, o, k)][f] = text], o)
                   EXCEPT !.n = @ + 1]
  /\ UNCHANGED OtherThanClone

\* cloneComments(source, target), once, the source having a map
CloneComments ==
  /\ cl.pc = "open"
  /\ CloneHasComments(cl, "source")
  /\ LET c1 == cloneCommentsShallow(cl)
     IN  cl' = [c1 EXCEPT !.pc = "cloned",
                          !.snap = [o \in CloneObjects |-> CloneView(c1, o)]]
  /\ UNCHANGED OtherThanClone

NextClone ==
  \/ CloneSetComment
  \/ CloneModifyInPlace
  \/ CloneComments

SpecClone == InitClone /\ [][NextClone]_vars

\* C19: after cloneComments(source, target) the target's map equals the
\* source's map of the time of the call, and a container that no later change
\* was made through still shows what it showed then, whatever was replaced or
\* modified in place through the other.
C19_CloneIsDeep ==
  cl.pc = "cloned" =>
    /\ cl.snap["target"] = cl.snap["source"]
    /\ \A o \in CloneObjects : o \notin cl.touched => CloneView(cl, o) = cl.snap[o]

(***************************************************************************)
(* 17. jsonParser.ts: where parseJson records the comments of a container  *)
(***************************************************************************)

MaxCommentEntries == 2

\* A commented text is laid out from a plan: a container of entries, each a
\* value 1 followed on its line by `inline` block comments and on the next
\* lines by `later` line comments; the comma stands before or after the
\* inline comments; a header comment may stand above the container.
JcLetters == <<"p", "q", "r", "s", "t", "u", "v", "w", "x", "y", "z", "k">>
JcInlineText(i, j) == JcLetters[3 * (i - 1) + j]
JcLaterText(i) == JcLetters[3 * i]
JcKeyChar(i) == <<"a", "b", "c", "d">>[i]
JcBlock(ch) == <<" ", "/", "*", ch, "*", "/">>
JcLine(ch) == <<"/", "/", ch, "\n">>

JcRenderEntry(d, i) ==
  LET e == d.entries[i]
      comma == IF i < Len(d.entries) \/ d.trailingComma THEN <<",">> ELSE <<>>
  IN  (IF d.kind = "object" THEN <<"\"", JcKeyChar(i), "\"", ":">> ELSE <<>>)
        \o <<"1">>
        \o (IF e.commaFirst THEN comma ELSE <<>>)
        \o JpConcat([j \in 1..e.inline |-> JcBlock(JcInlineText(i, j))])
        \o (IF e.commaFirst THEN <<>> ELSE comma)
        \o <<"\n">>
        \o (IF e.later = 1 THEN JcLine(JcLaterText(i)) ELSE <<>>)
JcRender(d) ==
  (IF d.header THEN JcLine("h") ELSE <<>>)
    \o (IF d.kind = "object" THEN <<"{">> ELSE <<"[">>)
    \o JpConcat([i \in 1..Len(d.entries) |-> JcRenderEntry(d, i)])
    \o (IF d.kind = "object" THEN <<"}">> ELSE <<"]">>)

JcEntryPlans == [inline : 0..2, later : 0..1, commaFirst : BOOLEAN]
JcPlans(maxEntries) ==
  [kind : {"object", "array"}, header : BOOLEAN, trailingComma : BOOLEAN,
   entries : UNION {[1..n -> JcEntryPlans] : n \in 1..maxEntries}]

OtherThanJsonComments == <<heap, ct, nOps, det, uw, js, ini, ym, ya, dg, jp, fm, yh, md, xe, pe, cl, je, ju, sj, xn, tq, xc, ro, ao, yn, pt>>

InitJsonComments ==
  /\ \E d \in JcPlans(MaxCommentEntries) : jc = [pc |-> "text", plan |-> d, text |-> JcRender(d)]
  /\ heap = Idle /\ ct = Idle /\ nOps = Idle /\ det = Idle /\ uw = Idle
  /\ js = Idle /\ ini = Idle /\ ym = Idle /\ ya = Idle /\ dg = Idle /\ jp = Idle
  /\ fm = Idle /\ yh = Idle /\ md = Idle /\ xe = Idle /\ pe = Idle /\ cl = Idle
  /\ je = Idle /\ ju = Idle /\ sj = Idle /\ xn = Idle /\ tq = Idle /\ xc = Idle
  /\ ro = Idle /\ ao = Idle /\ yn = Idle /\ pt = Idle

\* parseJson(input) (lines 10-13)
ParseCommentedJson ==
  /\ jc.pc = "text"
  /\ jc' = [pc |-> "parsed", plan |-> jc.plan, text |-> jc.text,
            res |-> JsonParserParse(jc.text)]
  /\ UNCHANGED OtherThanJsonComments

NextJsonComments == ParseCommentedJson

SpecJsonComments == InitJsonComments /\ [][NextJsonComments]_vars

\* The key of entry i in the comment map, and whether the text ch is part
\* of a recorded comment.
JcEntryKey(d, i) == IF d.kind = "object" THEN <<JcKeyChar(i)>> ELSE JpIndexKey(i - 1)
JcHas(comment, ch) == \E k \in 1..Len(comment) : comment[k] = ch
JcBefore(v, d, i) == JpGetComment(v, JcEntryKey(d, i)).before
JcAfter(v, d, i) == JpGetComment(v, JcEntryKey(d, i)).after

\* C20: every comment on the line of an entry's value is recorded in that
\* entry's after; a comment on a later line is at the head of the before of
\* the next entry or, after the last entry, in the container's "#".after; no
\* comment is in the before of an entry it follows.
C20_CommentPlacement ==
  (jc.pc = "parsed" /\ jc.res.ok) =>
    LET d == jc.plan
        v == jc.res.val
        n == Len(d.entries)
    IN  \A i \in 1..n :
          /\ \A j \in 1..d.entries[i].inline : JcHas(JcAfter(v, d, i), JcInlineText(i, j))
          /\ d.entries[i].later = 1 =>
               IF i < n
               THEN JcBefore(v, d, i + 1) # <<>> /\ JcBefore(v, d, i + 1)[1] = JcLaterText(i)
               ELSE JcHas(JpGetComment(v, JpHash).after, JcLaterText(i))
          /\ \A m \in i..n :
               /\ \A j \in 1..d.entries[m].inline : ~JcHas(JcBefore(v, d, i), JcInlineText(m, j))
               /\ ~JcHas(JcBefore(v, d, i), JcLaterText(m))

(***************************************************************************)
(* 18. jsonParser.ts: what becomes of every comment of a text              *)
(***************************************************************************)

MaxEveryEntries == 2

\* The tokens of a container of n entries with values 1, and a text laid out
\* from them: gap g is the place before token g (the last gap follows the
\* closing bracket); a gap of the plan holds one comment, whose text is the
\* letter of the gap.
JeKey(i) == <<"\"", <<"a", "b", "c">>[i], "\"">>
JeEntryTokens(kind, i, n) ==
  (IF kind = "object" THEN <<JeKey(i), <<":">>>> ELSE <<>>)
    \o <<<<"1">>>>
    \o (IF i < n THEN <<<<",">>>> ELSE <<>>)
JeTokens(kind, n) ==
  <<IF kind = "object" THEN <<"{">> ELSE <<"[">>>>
    \o JpConcat([i \in 1..n |-> JeEntryTokens(kind, i, n)])
    \o <<IF kind = "object" THEN <<"}">> ELSE <<"]">>>>
JeLetters == <<"c", "d", "e", "f", "g", "h", "i", "j", "k", "l", "m", "n", "o", "p">>
JeComment(style, g) ==
  IF style = "block" THEN <<"/", "*", JeLetters[g], "*", "/">>
  ELSE <<"/", "/", JeLetters[g], "\n">>
JeRender(p) ==
  LET tokens == JeTokens(p.kind, p.n)
  IN  JpConcat([g \in 1..Len(tokens) |->
                  (IF g \in p.gaps THEN JeComment(p.style, g) ELSE <<>>) \o tokens[g]])
        \o (IF Len(tokens) + 1 \in p.gaps THEN JeComment(p.style, Len(tokens) + 1) ELSE <<>>)
JePlans(maxEntries) ==
  UNION {[kind : {k}, n : {n}, style : {"block", "line"},
          gaps : SUBSET (1..Len(JeTokens(k, n)) + 1)] :
           k \in {"object", "array"}, n \in 1..maxEntries}

OtherThanJsonEvery == <<heap, ct, nOps, det, uw, js, ini, ym, ya, dg, jp, fm, yh, md, xe, pe, cl, jc, ju, sj, xn, tq, xc, ro, ao, yn, pt>>

InitJsonEvery ==
  /\ \E p \in JePlans(MaxEveryEntries) : je = [pc |-> "text", plan |-> p, text |-> JeRender(p)]
  /\ heap = Idle /\ ct = Idle /\ nOps = Idle /\ det = Idle /\ uw = Idle
  /\ js = Idle /\ ini = Idle /\ ym = Idle /\ ya = Idle /\ dg = Idle /\ jp = Idle
  /\ fm = Idle /\ yh = Idle /\ md = Idle /\ xe = Idle /\ pe = Idle /\ cl = Idle
  /\ jc = Idle /\ ju = Idle /\ sj = Idle /\ xn = Idle /\ tq = Idle /\ xc = Idle
  /\ ro = Idle /\ ao = Idle /\ yn = Idle /\ pt = Idle

\* parseJson(input) (lines 10-13)
ParseEveryComment ==
  /\ je.pc = "text"
  /\ je' = [pc |-> "parsed", plan |-> je.plan, text |-> je.text,
            res |-> JsonParserParse(je.text)]
  /\ UNCHANGED OtherThanJsonEvery

NextJsonEvery == ParseEveryComment

SpecJsonEvery == InitJsonEvery /\ [][NextJsonEvery]_vars

\* The before / after fields of the comment map of a value, and the number
\* of places a letter has in them.
JeFields(v) == {<<k, f>> : k \in DOMAIN v.cm, f \in {"before", "after"}}
JePlaces(v, ch) ==
  Cardinality({<<kf, i>> \in JeFields(v) \X (1..40) :
                 i <= Len(v.cm[kf[1]][kf[2]]) /\ v.cm[kf[1]][kf[2]][i] = ch})

\* C21: every comment of an accepted text with a container root is in
\* exactly one before / after field of one slot of the result, and two
\* comments of one field are there in the order of the text.
C21_EveryCommentKept ==
  (je.pc = "parsed" /\ je.res.ok) =>
    /\ \A g \in je.plan.gaps : JePlaces(je.res.val, JeLetters[g]) = 1
    /\ \A kf \in JeFields(je.res.val) :
         LET c == je.res.val.cm[kf[1]][kf[2]]
         IN  \A i, j \in 1..Len(c) :
               \A g, h \in je.plan.gaps :
                 (i < j /\ c[i] = JeLetters[g] /\ c[j] = JeLetters[h]) => g < h

(***************************************************************************)
(* 19. jsonParser.ts: a block comment that is never closed                 *)
(***************************************************************************)

MaxTail == 2

\* Complete JSON texts, and the characters after the opening of the comment.
JuBases ==
  {<<"1">>, <<"\"", "a", "\"">>, <<"n", "u", "l", "l">>, <<"t", "r", "u", "e">>,
   <<"[", "]">>, <<"{", "}">>, <<"[", "1", "]">>,
   <<"{", "\"", "a", "\"", ":", "1", "}">>,
   <<"[", "1", "/", "*", "x", "*", "/", "]">>,
   <<"[", "1", "\n", "/", "/", "y", "\n", "]">>,
   <<"[", "1", "]", "/", "*", "x", "*", "/">>,
   <<"/", "*", "h", "*", "/", "[", "1", "]">>}
JuTailChars == {"c", " ", "*", "\n", "/"}
JuUnclosed(tail) == \A i \in 1..Len(tail) - 1 : ~(tail[i] = "*" /\ tail[i + 1] = "/")
JuTails(maxTail) ==
  {tail \in UNION {[1..n -> JuTailChars] : n \in 0..maxTail} : JuUnclosed(tail)}
JuGaps == {<<>>, <<" ">>, <<"\n">>}

OtherThanJsonUnterminated == <<heap, ct, nOps, det, uw, js, ini, ym, ya, dg, jp, fm, yh, md, xe, pe, cl, jc, je, sj, xn, tq, xc, ro, ao, yn, pt>>

InitJsonUnterminated ==
  /\ \E base \in JuBases, gap \in JuGaps, tail \in JuTails(MaxTail) :
       ju = [pc |-> "text", base |-> base, tail |-> tail,
             text |-> base \o gap \o <<"/", "*">> \o tail]
  /\ heap = Idle /\ ct = Idle /\ nOps = Idle /\ det = Idle /\ uw = Idle
  /\ js = Idle /\ ini = Idle /\ ym = Idle /\ ya = Idle /\ dg = Idle /\ jp = Idle
  /\ fm = Idle /\ yh = Idle /\ md = Idle /\ xe = Idle /\ pe = Idle /\ cl = Idle
  /\ jc = Idle /\ je = Idle /\ sj = Idle /\ xn = Idle /\ tq = Idle /\ xc = Idle
  /\ ro = Idle /\ ao = Idle /\ yn = Idle /\ pt = Idle

\* parseJson(input) (lines 10-13), and parseJson of the text before the comment
ParseUnterminated ==
  /\ ju.pc = "text"
  /\ ju' = [pc |-> "parsed", base |-> ju.base, tail |-> ju.tail, text |-> ju.text,
            alone |-> JsonParserParse(ju.base), res |-> JsonParserParse(ju.text)]
  /\ UNCHANGED OtherThanJsonUnterminated

NextJsonUnterminated == ParseUnterminated

SpecJsonUnterminated == InitJsonUnterminated /\ [][NextJsonUnterminated]_vars

\* the value without the comments of its root, and the end of a text
JuData(v) == [t |-> v.t, s |-> v.s, items |-> v.items]
JuEndsWith(s, e) == Len(s) >= Len(e) /\ SubSeq(s, Len(s) - Len(e) + 1, Len(s)) = e
JuRecovered ==
  /\ ju.res.ok
  /\ JuData(ju.res.val) = JuData(ju.alone.val)
JuTrailing ==
  /\ MapHas(ju.res.val.cm, JpHash)
  /\ JuEndsWith(ju.res.val.cm[JpHash].after, JpTrim(ju.tail))

MaxStripLen == 5

\* `result += next` with next === undefined appends the text "undefined"
StripUndefined == <<"u", "n", "d", "e", "f", "i", "n", "e", "d">>

\* stripJsoncComments (lines 255-309): the loop from index i on; mode is one
\* of the flags inString, inLineComment, inBlockComment, or "normal".
RECURSIVE StripLoop(_, _, _, _)
StripLoop(source, i, mode, result) ==
  IF i >= Len(source) THEN result
  ELSE LET ch == source[i + 1]
           next == JpAt(source, i + 1)
       IN  IF mode = "inLineComment"
           THEN IF ch = "\n" THEN StripLoop(source, i + 1, "normal", Append(result, ch))
                ELSE StripLoop(source, i + 1, mode, Append(result, " "))
           ELSE IF mode = "inBlockComment"
           THEN IF ch = "*" /\ next = "/"
                THEN StripLoop(source, i + 2, "normal", result \o <<" ", " ">>)
                ELSE IF ch = "\n" THEN StripLoop(source, i + 1, mode, Append(result, ch))
                ELSE StripLoop(source, i + 1, mode, Append(result, " "))
           ELSE IF mode = "inString"
           THEN IF ch = "\\"
                THEN StripLoop(source, i + 2, mode,
                               Append(result, ch)
                                 \o (IF next = Undef THEN StripUndefined ELSE <<next>>))
                ELSE IF ch = "\"" THEN StripLoop(source, i + 1, "normal", Append(result, ch))
                ELSE StripLoop(source, i + 1, mode, Append(result, ch))
           ELSE IF ch = "\"" THEN StripLoop(source, i + 1, "inString", Append(result, ch))
                ELSE IF ch = "/" /\ next = "/"
                THEN StripLoop(source, i + 2, "inLineComment", result \o <<" ", " ">>)
                ELSE IF ch = "/" /\ next = "*"
                THEN StripLoop(source, i + 2, "inBlockComment", result \o <<" ", " ">>)
                ELSE StripLoop(source, i + 1, mode, Append(result, ch))
stripJsoncComments(source) == StripLoop(source, 0, "normal", <<>>)

\* The lexical class of every position of a JSONC text: "code", "string"
\* (a literal with its quotes; a backslash makes the next character part of
\* the literal) or "comment" (from // up to the newline, from /* through */
\* or to the end of the text).
RECURSIVE StripClasses(_, _, _)
StripClasses(s, mode, out) ==
  IF Len(out) = Len(s) THEN out
  ELSE LET i == Len(out) + 1
           two == SubSeq(s, i, JpMin(i + 1, Len(s)))
       IN  CASE mode = "line" ->
                  IF s[i] = "\n" THEN StripClasses(s, "code", Append(out, "code"))
                  ELSE StripClasses(s, mode, Append(out, "comment"))
             [] mode = "block" ->
                  IF two = <<"*", "/">> THEN StripClasses(s, "code", out \o <<"comment", "comment">>)
                  ELSE StripClasses(s, mode, Append(out, "comment"))
             [] mode = "string" ->
                  IF s[i] = "\\" THEN StripClasses(s, mode, out \o [k \in 1..Len(two) |-> "string"])
                  ELSE IF s[i] = "\"" THEN StripClasses(s, "code", Append(out, "string"))
                  ELSE StripClasses(s, mode, Append(out, "string"))
             [] OTHER ->
                  IF s[i] = "\"" THEN StripClasses(s, "string", Append(out, "string"))
                  ELSE IF two = <<"/", "/">> THEN StripClasses(s, "line", out \o <<"comment", "comment">>)
                  ELSE IF two = <<"/", "*">> THEN StripClasses(s, "block", out \o <<"comment", "comment">>)
                  ELSE StripClasses(s, mode, Append(out, "code"))

StripChars == {"\"", "/", "*", "\n", "\\", "a"}
StripSources(maxLen) == UNION {[1..n -> StripChars] : n \in 0..maxLen}

OtherThanStrip == <<heap, ct, nOps, det, uw, js, ini, ym, ya, dg, jp, fm, yh, md, xe, pe, cl, jc, je, ju, xn, tq, xc, ro, ao, yn, pt>>

InitStrip ==
  /\ \E s \in StripSources(MaxStripLen) : sj = [pc |-> "source", source |-> s]
  /\ heap = Idle /\ ct = Idle /\ nOps = Idle /\ det = Idle /\ uw = Idle
  /\ js = Idle /\ ini = Idle /\ ym = Idle /\ ya = Idle /\ dg = Idle /\ jp = Idle
  /\ fm = Idle /\ yh = Idle /\ md = Idle /\ xe = Idle /\ pe = Idle /\ cl = Idle
  /\ jc = Idle /\ je = Idle /\ ju = Idle /\ xn = Idle /\ tq = Idle /\ xc = Idle
  /\ ro = Idle /\ ao = Idle /\ yn = Idle /\ pt = Idle

Strip ==
  /\ sj.pc = "source"
  /\ sj' = [pc |-> "stripped", source |-> sj.source, out |-> stripJsoncComments(sj.source)]
  /\ UNCHANGED OtherThanStrip

NextStrip == Strip

SpecStrip == InitStrip /\ [][NextStrip]_vars

StripKeepsPositions(s, out) ==
  /\ Len(out) = Len(s)
  /\ \A i \in 1..Len(s) :
       LET class == StripClasses(s, "code", <<>>)[i]
       IN  /\ (out[i] = "\n") <=> (s[i] = "\n")
           /\ class # "comment" => out[i] = s[i]
           /\ (class = "comment" /\ s[i] # "\n") => out[i] = " "

\* C23: the stripped text has the length of the source, a newline exactly
\* where the source has one, the character of the source at every position
\* outside a comment, and a space at every other position of a comment.
C23_StripKeepsPositions ==
  sj.pc = "stripped" => StripKeepsPositions(sj.source, sj.out)

(***************************************************************************)
(* 21. XML decode: the #comments fields of the parsed tree                 *)
(***************************************************************************)

MaxXmlComments == 2

\* The tree of XMLParser.parse with commentPropName "#comments": an element
\* is an object whose field #comments (raw; <<>> when absent) holds the
\* comments collected in it, a repeated tag is an array of its occurrences,
\* #text and @_ keys are the text and the attributes of an element.
XnText == [t |-> "text"]
XnObject(raw, items) == [t |-> "object", raw |-> raw, items |-> items, cm |-> EmptyMap]
XnArray(elems) == [t |-> "array", elems |-> elems]
XnItem(key, val) == [key |-> key, val |-> val]
XnCommentTexts == <<<<"c">>, <<" ", "d", " ">>>>
XnRaws(maxComments) == {SubSeq(XnCommentTexts, 1, n) : n \in 0..maxComments} \cup {<<XnCommentTexts[2]>>}
XnLeafItems ==
  {<<>>, <<XnItem("#text", XnText)>>, <<XnItem("b", XnText)>>, <<XnItem("@_id", XnText)>>,
   <<XnItem("#text", XnText), XnItem("b", XnText)>>}
XnLeaves(maxComments) == {XnObject(raw, items) : raw \in XnRaws(maxComments), items \in XnLeafItems}
XnValues(maxComments) ==
  {XnText} \cup XnLeaves(maxComments)
    \cup {XnArray(<<x, y>>) : x \in XnLeaves(maxComments), y \in {XnText, XnObject(<<>>, <<>>)}}
    \cup {XnArray(<<x, x>>) : x \in XnLeaves(maxComments)}
XnElements(maxComments) ==
  {XnObject(raw, <<XnItem("a", v)>>) : raw \in XnRaws(maxComments), v \in XnValues(maxComments)}
XnDocuments(maxComments) ==
  {XnObject(raw, <<XnItem("r", e)>>) : raw \in {<<>>, <<XnCommentTexts[1]>>}, e \in XnElements(maxComments)}

\* k.startsWith("#")
XnStartsWithHash(key) == key \in {"#text", "#comments"}
XnChildKeys(items) == SelectSeq([i \in 1..Len(items) |-> items[i].key], LAMBDA k : ~XnStartsWithHash(k))
XnTrimAll(raw) == [i \in 1..Len(raw) |-> JpTrim(raw[i])]

\* extractNativeXmlComments (lines 66-103): the comments of the object itself
XnOwnComments(obj) ==
  IF obj.raw = <<>> THEN obj
  ELSE IF XnChildKeys(obj.items) # <<>> /\ Len(obj.raw) = 1
  THEN [obj EXCEPT !.raw = <<>>,
                   !.cm = MapSet(@, XnChildKeys(obj.items)[1],
                                 [before |-> JpTrim(obj.raw[1]), after |-> <<>>])]
  ELSE [obj EXCEPT !.raw = <<>>,
                   !.cm = MapSet(@, "#", [before |-> JpJoin(XnTrimAll(obj.raw)), after |-> <<>>])]

\* extractNativeXmlComments: the recursion enters a value that is an object
\* and not an array
RECURSIVE extractNativeXmlComments(_)
extractNativeXmlComments(obj) ==
  IF obj.t # "object" THEN obj
  ELSE [XnOwnComments(obj) EXCEPT
          !.items = [i \in 1..Len(obj.items) |->
                       XnItem(obj.items[i].key,
                              IF obj.items[i].val.t = "object"
                              THEN extractNativeXmlComments(obj.items[i].val)
                              ELSE obj.items[i].val)]]

OtherThanXmlDecode == <<heap, ct, nOps, det, uw, js, ini, ym, ya, dg, jp, fm, yh, md, xe, pe, cl, jc, je, ju, sj, tq, xc, ro, ao, yn, pt>>

InitXmlDecode ==
  /\ \E doc \in XnDocuments(MaxXmlComments) : xn = [pc |-> "parsed", parsed |-> doc]
  /\ heap = Idle /\ ct = Idle /\ nOps = Idle /\ det = Idle /\ uw = Idle
  /\ js = Idle /\ ini = Idle /\ ym = Idle /\ ya = Idle /\ dg = Idle /\ jp = Idle
  /\ fm = Idle /\ yh = Idle /\ md = Idle /\ xe = Idle /\ pe = Idle /\ cl = Idle
  /\ jc = Idle /\ je = Idle /\ ju = Idle /\ sj = Idle /\ tq = Idle /\ xc = Idle
  /\ ro = Idle /\ ao = Idle /\ yn = Idle /\ pt = Idle

\* XmlPlugin.decode (lines 135-145) after xmlParser.parse
XmlDecode ==
  /\ xn.pc = "parsed"
  /\ xn' = [pc |-> "decoded", parsed |-> xn.parsed, value |-> extractNativeXmlComments(xn.parsed)]
  /\ UNCHANGED OtherThanXmlDecode

NextXmlDecode == XmlDecode

SpecXmlDecode == InitXmlDecode /\ [][NextXmlDecode]_vars

\* some object of the tree has a #comments field
RECURSIVE XnHasCommentsField(_)
XnHasCommentsField(v) ==
  IF v.t = "text" THEN FALSE
  ELSE IF v.t = "array" THEN \E i \in 1..Len(v.elems) : XnHasCommentsField(v.elems[i])
  ELSE v.raw # <<>> \/ \E i \in 1..Len(v.items) : XnHasCommentsField(v.items[i].val)

\* the comments collected in every object of the parsed tree are in the
\* metadata of the same object of the decoded tree
XnElementKeys(items) ==
  SelectSeq([i \in 1..Len(items) |-> items[i].key],
            LAMBDA k : ~XnStartsWithHash(k) /\ k # "@_id")
XnBefore(v, key) == IF MapHas(v.cm, key) THEN v.cm[key].before ELSE <<>>
RECURSIVE XnCommentsKept(_, _)
XnCommentsKept(parsed, value) ==
  IF parsed.t = "text" THEN TRUE
  ELSE IF parsed.t = "array"
  THEN \A i \in 1..Len(parsed.elems) : XnCommentsKept(parsed.elems[i], value.elems[i])
  ELSE /\ parsed.raw # <<>> =>
            IF Len(parsed.raw) = 1 /\ XnElementKeys(parsed.items) # <<>>
            THEN XnBefore(value, XnElementKeys(parsed.items)[1]) = JpTrim(parsed.raw[1])
            ELSE XnBefore(value, "#") = JpJoin(XnTrimAll(parsed.raw))
       /\ \A i \in 1..Len(parsed.items) : XnCommentsKept(parsed.items[i].val, value.items[i].val)

\* C24: after XML decode no object of the value has a #comments field, and
\* every comment collected is in the metadata: the before of the first child
\* element for one comment, the "#".before of the element otherwise.
C24_NoCommentsFieldLeft ==
  xn.pc = "decoded" =>
    /\ ~XnHasCommentsField(xn.value)
    /\ XnCommentsKept(xn.parsed, xn.value)

(***************************************************************************)
(* 22. TOML and INI decode: the queue of pending comments                  *)
(***************************************************************************)

MaxQueueLines == 4

\* A line of a TOML text, trimmed:
\*   # c1    [s]    [s.t]    k = 1    k = 1 # i    t = 1    "q" = 1    (blank)
\* name is the comment text or the key, path the path of a section header,
\* value the inline comment of a key line.
TomlLine(kind, name, path, value) == [kind |-> kind, name |-> name, path |-> path, value |-> value]
TomlLineSet ==
  {TomlLine("comment", c, <<>>, <<>>) : c \in IniCommentTexts}
    \cup {TomlLine("section", "", p, <<>>) : p \in {<<"s">>, <<"s", "t">>}}
    \cup {TomlLine("kv", "k", <<>>, i) : i \in {<<>>, <<"i">>}}
    \cup {TomlLine("kv", "t", <<>>, <<>>), TomlLine("quoted", "q", <<>>, <<>>),
          TomlLine("blank", "", <<>>, <<>>)}
TomlContainers == {<<>>, <<"s">>, <<"s", "t">>}

\* the table a line belongs to: the path of the last section header up to it
RECURSIVE TomlTable(_, _)
TomlTable(lines, i) ==
  IF i = 0 THEN <<>>
  ELSE IF lines[i].kind = "section" THEN lines[i].path
  ELSE TomlTable(lines, i - 1)

\* the texts parseToml accepts: no table and no key of a table defined twice
TomlAccepted(lines) ==
  \A i, j \in 1..Len(lines) :
    i < j =>
      /\ ~(lines[i].kind = "section" /\ lines[j].kind = "section" /\ lines[i].path = lines[j].path)
      /\ ~(/\ lines[i].kind \in {"kv", "quoted"} /\ lines[j].kind \in {"kv", "quoted"}
           /\ lines[i].name = lines[j].name
           /\ TomlTable(lines, i) = TomlTable(lines, j))
      /\ ~(/\ {lines[i].kind, lines[j].kind} = {"kv", "section"}
           /\ \E a, b \in {i, j} :
                /\ lines[a].kind = "kv" /\ lines[b].kind = "section"
                /\ Append(TomlTable(lines, a), lines[a].name) = lines[b].path)
TomlTexts(maxLines) ==
  {lines \in UNION {[1..n -> TomlLineSet] : n \in 1..maxLines} : TomlAccepted(lines)}

TomlSetComment(cm, c, k, e) == [cm EXCEPT ![c] = MapSet(@, k, e)]
TomlGetComment(cm, c, k) == IF MapHas(cm[c], k) THEN cm[c][k] ELSE IniNoEntry
TomlStart ==
  [cm |-> [c \in TomlContainers |-> EmptyMap], cur |-> <<>>, pending |-> <<>>,
   headerDone |-> FALSE]

\* One iteration of attachTomlComments' loop (lines 45-119): a line with a
\* quoted key matches neither regular expression.
attachTomlLine(st, l) ==
  CASE l.kind = "comment" -> [st EXCEPT !.pending = Append(@, l.name)]
    [] l.kind = "section" ->
         [st EXCEPT
            !.cur = l.path,
            !.cm = IF st.pending = <<>> THEN @
                   ELSE IF ~st.headerDone
                   THEN TomlSetComment(@, <<>>, "#", [before |-> st.pending, after |-> <<>>])
                   ELSE TomlSetComment(@, <<>>, l.path[Len(l.path)],
                                       [before |-> st.pending, after |-> <<>>]),
            !.pending = <<>>, !.headerDone = TRUE]
    [] l.kind = "kv" ->
         LET before == IF st.pending # <<>> /\ st.headerDone THEN st.pending ELSE <<>>
             cm1 == IF st.pending # <<>> /\ ~st.headerDone
                    THEN TomlSetComment(st.cm, <<>>, "#", [before |-> st.pending, after |-> <<>>])
                    ELSE st.cm
         IN  [st EXCEPT
                !.cm = IF before # <<>> \/ l.value # <<>>
                       THEN TomlSetComment(cm1, st.cur, l.name, [before |-> before, after |-> l.value])
                       ELSE cm1,
                !.pending = <<>>, !.headerDone = TRUE]
    [] OTHER -> st

RECURSIVE attachTomlLoop(_, _, _)
attachTomlLoop(st, lines, i) ==
  IF i > Len(lines) THEN st ELSE attachTomlLoop(attachTomlLine(st, lines[i]), lines, i + 1)

\* attachTomlComments (lines 39-130)
attachTomlComments(lines) ==
  [cm |-> IF attachTomlLoop(TomlStart, lines, 1).pending = <<>>
          THEN attachTomlLoop(TomlStart, lines, 1).cm
          ELSE TomlSetComment(attachTomlLoop(TomlStart, lines, 1).cm, <<>>, "#",
                 [TomlGetComment(attachTomlLoop(TomlStart, lines, 1).cm, <<>>, "#")
                    EXCEPT !.after = attachTomlLoop(TomlStart, lines, 1).pending])]

\* the INI lines in the shape of the TOML ones, and the comment maps of
\* parseIni by the path of the container
QueueIniLine(l) ==
  TomlLine(l.kind, l.name, IF l.kind = "section" THEN <<l.name>> ELSE <<>>, <<>>)
QueueIniMaps(cm) ==
  [c \in {<<>>} \cup {<<n>> : n \in IniSections} |->
     IF c = <<>> THEN cm[IniRoot].map ELSE cm[c[1]].map]

OtherThanQueue == <<heap, ct, nOps, det, uw, js, ini, ym, ya, dg, jp, fm, yh, md, xe, pe, cl, jc, je, ju, sj, xn, xc, ro, ao, yn, pt>>

InitQueue ==
  /\ \/ \E lines \in TomlTexts(MaxQueueLines) :
          tq = [pc |-> "text", format |-> "TOML", lines |-> lines, text |-> lines]
     \/ \E text \in IniTexts(MaxQueueLines) :
          tq = [pc |-> "text", format |-> "INI", text |-> text,
                lines |-> [i \in 1..Len(text) |-> QueueIniLine(text[i])]]
  /\ heap = Idle /\ ct = Idle /\ nOps = Idle /\ det = Idle /\ uw = Idle
  /\ js = Idle /\ ini = Idle /\ ym = Idle /\ ya = Idle /\ dg = Idle /\ jp = Idle
  /\ fm = Idle /\ yh = Idle /\ md = Idle /\ xe = Idle /\ pe = Idle /\ cl = Idle
  /\ jc = Idle /\ je = Idle /\ ju = Idle /\ sj = Idle /\ xn = Idle /\ xc = Idle
  /\ ro = Idle /\ ao = Idle /\ yn = Idle /\ pt = Idle

\* TomlPlugin.decode (lines 150-154)
TomlDecode ==
  /\ tq.pc = "text" /\ tq.format = "TOML"
  /\ tq' = [pc |-> "decoded", format |-> tq.format, lines |-> tq.lines, text |-> tq.text,
            cm |-> attachTomlComments(tq.text).cm]
  /\ UNCHANGED OtherThanQueue

\* parseIni (lines 14-86)
QueueIniDecode ==
  /\ tq.pc = "text" /\ tq.format = "INI"
  /\ tq' = [pc |-> "decoded", format |-> tq.format, lines |-> tq.lines, text |-> tq.text,
            cm |-> QueueIniMaps(parseIni(tq.text).cm)]
  /\ UNCHANGED OtherThanQueue

NextQueue == TomlDecode \/ QueueIniDecode

SpecQueue == InitQueue /\ [][NextQueue]_vars

\* Key and section lines, the one before line i (0 when there is none), and
\* the block queued at line i: the comment lines since that one.
QueueEmptying(l) == l.kind \in {"kv", "quoted", "section"}
QueuePrev(lines, i) ==
  LET earlier == {j \in 1..i - 1 : QueueEmptying(lines[j])}
  IN  IF earlier = {} THEN 0 ELSE CHOOSE j \in earlier : \A h \in earlier : h <= j
QueueBlock(lines, i) ==
  LET from == QueuePrev(lines, i) + 1
  IN  SelectSeq([k \in 1..(i - from) |-> from + k - 1],
                LAMBDA j : lines[j].kind = "comment")
QueueTexts(lines, i) ==
  [k \in 1..Len(QueueBlock(lines, i)) |-> lines[QueueBlock(lines, i)[k]].name]

\* the slot of a key or section line: a key in the table current at the
\* line, a section in the table that holds it
QueueSlot(lines, i) ==
  IF lines[i].kind = "section"
  THEN [c |-> SubSeq(lines[i].path, 1, Len(lines[i].path) - 1),
        k |-> lines[i].path[Len(lines[i].path)]]
  ELSE [c |-> TomlTable(lines, i), k |-> lines[i].name]
QueueBefore(cm, c, k) == IF MapHas(cm[c], k) THEN cm[c][k].before ELSE <<>>
QueueAfter(cm, c, k) == IF MapHas(cm[c], k) THEN cm[c][k].after ELSE <<>>
QueueLastOfSlot(lines, i) ==
  \A j \in i + 1..Len(lines) :
    (QueueEmptying(lines[j]) /\ QueuePrev(lines, j) # 0 /\ QueueTexts(lines, j) # <<>>)
      => QueueSlot(lines, j) # QueueSlot(lines, i)

QueuePlaced(lines, cm) ==
  /\ \A i \in 1..Len(lines) :
       (QueueEmptying(lines[i]) /\ QueuePrev(lines, i) = 0) =>
         QueueBefore(cm, <<>>, "#") = QueueTexts(lines, i)
  /\ (\A i \in 1..Len(lines) : ~QueueEmptying(lines[i])) => QueueBefore(cm, <<>>, "#") = <<>>
  /\ \A i \in 1..Len(lines) :
       (/\ QueueEmptying(lines[i]) /\ QueuePrev(lines, i) # 0
        /\ QueueTexts(lines, i) # <<>> /\ QueueLastOfSlot(lines, i)) =>
         QueueBefore(cm, QueueSlot(lines, i).c, QueueSlot(lines, i).k) = QueueTexts(lines, i)
  /\ QueueAfter(cm, <<>>, "#") = QueueTexts(lines, Len(lines) + 1)

\* C25: the block queued before the first key or section line is the
\* root's "#".before, the block queued before a later key or section line is
\* the before of the slot of that key or section, and the block left after
\* the last key or section line is the root's "#".after.
C25_QueueEmptied ==
  tq.pc = "decoded" => QueuePlaced(tq.lines, tq.cm)

(***************************************************************************)
(* 23. commentExtractor.ts: extractXmlComments                             *)
(***************************************************************************)

MaxXmlLines == 2
MaxXmlLineTokens == 3

\* A line is a sequence of tokens: the opening and the closing of a comment,
\* a character of content, a space.
XcOpen == "<!--"
XcClose == "-->"
XcTokens == {XcOpen, XcClose, "x", " "}
XcLines(maxTokens) == UNION {[1..n -> XcTokens] : n \in 0..maxTokens}
XcSources(maxLines, maxTokens) == UNION {[1..n -> XcLines(maxTokens)] : n \in 1..maxLines}

\* line.indexOf(token, from): the index, from 0, or -1
XcIndexOf(line, token, from) ==
  LET found == {i \in from..Len(line) - 1 : line[i + 1] = token}
  IN  IF found = {} THEN -1 ELSE CHOOSE i \in found : \A j \in found : i <= j
XcLastIndexOf(line, token) ==
  LET found == {i \in 0..Len(line) - 1 : line[i + 1] = token}
  IN  IF found = {} THEN -1 ELSE CHOOSE i \in found : \A j \in found : j <= i

XcStart == [result |-> <<>>, inComment |-> FALSE, commentText |-> <<>>, commentStartLine |-> 0]

\* One iteration of extractXmlComments' loop (lines 88-129) on line i.
extractXmlLine(st, line, i) ==
  IF st.inComment
  THEN IF XcIndexOf(line, XcClose, 0) >= 0
       THEN [st EXCEPT
               !.result = Append(@,
                  [line |-> st.commentStartLine,
                   text |-> JpTrim(st.commentText \o JpTrim(JpSlice(line, 0, XcIndexOf(line, XcClose, 0)))),
                   inline |-> ~(\/ JpStartsWith(JpTrim(line), <<XcOpen>>, 0)
                                \/ JpTrim(JpSlice(JpTrim(line),
                                                  XcLastIndexOf(JpTrim(line), XcClose) + 1,
                                                  Len(line))) = <<>>)]),
               !.commentText = <<>>, !.inComment = FALSE]
       ELSE [st EXCEPT !.commentText = @ \o JpTrim(line) \o <<"\n">>]
  ELSE IF XcIndexOf(line, XcOpen, 0) < 0 THEN st
  ELSE IF XcIndexOf(line, XcClose, XcIndexOf(line, XcOpen, 0) + 1) >= 0
  THEN [st EXCEPT
          !.result = Append(@,
             [line |-> i,
              text |-> JpTrim(JpSlice(line, XcIndexOf(line, XcOpen, 0) + 1,
                                      XcIndexOf(line, XcClose, XcIndexOf(line, XcOpen, 0) + 1))),
              inline |-> JpTrim(JpSlice(line, 0, XcIndexOf(line, XcOpen, 0))) # <<>>])]
  ELSE [st EXCEPT !.inComment = TRUE, !.commentStartLine = i,
                  !.commentText = JpTrim(JpSlice(line, XcIndexOf(line, XcOpen, 0) + 1, Len(line)))
                                    \o <<"\n">>]

RECURSIVE extractXmlLoop(_, _, _)
extractXmlLoop(st, lines, i) ==
  IF i >= Len(lines) THEN st
  ELSE extractXmlLoop(extractXmlLine(st, lines[i + 1], i), lines, i + 1)

\* extractXmlComments (lines 81-133)
extractXmlComments(lines) == extractXmlLoop(XcStart, lines, 0).result

\* The comments of the text: every token of its lines with its line, and
\* the scan for an opening and the next closing after it.
XcFlat(lines) ==
  JpConcat([i \in 1..Len(lines) |->
              [j \in 1..Len(lines[i]) |-> [tok |-> lines[i][j], line |-> i - 1]]])
XcContent(toks) == SelectSeq(toks, LAMBDA c : c \notin {" ", "\n"})
RECURSIVE XcComments(_, _, _, _)
XcComments(flat, p, open, acc) ==
  IF p > Len(flat) THEN acc
  ELSE IF open = 0
  THEN XcComments(flat, p + 1, IF flat[p].tok = XcOpen THEN p ELSE 0, acc)
  ELSE IF flat[p].tok # XcClose THEN XcComments(flat, p + 1, open, acc)
  ELSE XcComments(flat, p + 1, 0,
         Append(acc,
           [line |-> flat[open].line,
            content |-> XcContent([k \in 1..(p - open - 1) |-> flat[open + k].tok]),
            inline |-> \E q \in 1..open - 1 :
                         flat[q].line = flat[open].line /\ flat[q].tok # " "]))

OtherThanXmlComments == <<heap, ct, nOps, det, uw, js, ini, ym, ya, dg, jp, fm, yh, md, xe, pe, cl, jc, je, ju, sj, xn, tq, ro, ao, yn, pt>>

InitXmlComments ==
  /\ \E lines \in XcSources(MaxXmlLines, MaxXmlLineTokens) : xc = [pc |-> "source", lines |-> lines]
  /\ heap = Idle /\ ct = Idle /\ nOps = Idle /\ det = Idle /\ uw = Idle
  /\ js = Idle /\ ini = Idle /\ ym = Idle /\ ya = Idle /\ dg = Idle /\ jp = Idle
  /\ fm = Idle /\ yh = Idle /\ md = Idle /\ xe = Idle /\ pe = Idle /\ cl = Idle
  /\ jc = Idle /\ je = Idle /\ ju = Idle /\ sj = Idle /\ xn = Idle /\ tq = Idle
  /\ ro = Idle /\ ao = Idle /\ yn = Idle /\ pt = Idle

ExtractXmlComments ==
  /\ xc.pc = "source"
  /\ xc' = [pc |-> "extracted", lines |-> xc.lines, result |-> extractXmlComments(xc.lines)]
  /\ UNCHANGED OtherThanXmlComments

NextXmlComments == ExtractXmlComments

SpecXmlComments == InitXmlComments /\ [][NextXmlComments]_vars

XcRecords(result) ==
  [k \in 1..Len(result) |->
     [line |-> result[k].line, content |-> XcContent(result[k].text), inline |-> result[k].inline]]

\* C26: the records are the comments of the text, one each, with the line
\* of the opening, the text between opening and closing, and inline exactly
\* when something other than white space precedes the opening on its line.
C26_OneRecordPerComment ==
  xc.pc = "extracted" => XcRecords(xc.result) = XcComments(XcFlat(xc.lines), 1, 0, <<>>)

(***************************************************************************)
(* 24. encode and its input                                                *)
(***************************************************************************)

MaxEncodeInputs == 1

\* The values given to encode, by plugin: a YAML value with comments, a
\* decoded YAML document with anchors, decoded YAML documents with the
\* multi-document marker, a decoded JSON and INI text, an XML value.
EncodeYamlValues(n) ==
  UNION {{YamlDecorate(v, dec) :
            dec \in UNION {[D -> YamlTexts] :
                             D \in {S \in SUBSET YamlSpots(v) : Cardinality(S) <= 1}}} :
           v \in YamlShapes(n)}
EncodeJsonTexts(n) ==
  UNION {{JsonDecorate(JSONStringifyPretty(d), spots) :
            spots \in {sp \in SUBSET JsonSpots(JSONStringifyPretty(d)) : Cardinality(sp) <= 1}} :
           d \in JsonDocs(n)}
EncodeInputs(n) ==
  {[plugin |-> "YAML", part |-> "comments", value |-> v] : v \in EncodeYamlValues(n)}
    \cup {[plugin |-> "YAML", part |-> "anchors", value |-> yamlDecodeAnchors(d)] :
            d \in AnchorDocs(n)}
    \cup {[plugin |-> "YAML", part |-> "documents", value |-> multiDecode(docs)] :
            docs \in MultiSources(2)}
    \cup {[plugin |-> "JSON", part |-> "comments", value |-> parseJson(t).doc] :
            t \in {x \in EncodeJsonTexts(n) : parseJson(x).ok}}
    \cup {[plugin |-> "INI", part |-> "comments", value |-> parseIni(t)] : t \in IniTexts(n + 1)}
    \cup {[plugin |-> "XML", part |-> "data", value |-> v] : v \in XmlRoots(n)}

\* plugin.encode(value): the text returned (for XML, or the error thrown)
pluginEncode(in) ==
  CASE in.plugin = "YAML" /\ in.part = "comments" -> yamlEncodeDoc(in.value)
    [] in.plugin = "YAML" /\ in.part = "anchors" -> applyAnchorsToNode(in.value)
    [] in.plugin = "YAML" /\ in.part = "documents" -> multiEncodeChunks(in.value)
    [] in.plugin = "JSON" -> jsonEncode(in.value)
    [] in.plugin = "INI" -> stringifyIni(in.value)
    [] in.plugin = "XML" -> xmlEncode(in.value)

\* an encode that would use up the comments of an INI value
encodeInputConsumed(in) ==
  IF in.plugin = "INI" THEN [in EXCEPT !.value.cm = IniNoComments] ELSE in

\* The value after encode: YamlPlugin.encode decorates the Document it
\* builds with new Document(data), the other plugins build a text; no
\* statement of an encode assigns to data, to its comment or anchor maps or
\* to the multi-document marker.
encodeInput(in) == in

OtherThanReadOnly == <<heap, ct, nOps, det, uw, js, ini, ym, ya, dg, jp, fm, yh, md, xe, pe, cl, jc, je, ju, sj, xn, tq, xc, ao, yn, pt>>

InitReadOnly ==
  /\ \E in \in EncodeInputs(MaxEncodeInputs) : ro = [pc |-> "value", given |-> in, in |-> in, outs |-> <<>>]
  /\ heap = Idle /\ ct = Idle /\ nOps = Idle /\ det = Idle /\ uw = Idle
  /\ js = Idle /\ ini = Idle /\ ym = Idle /\ ya = Idle /\ dg = Idle /\ jp = Idle
  /\ fm = Idle /\ yh = Idle /\ md = Idle /\ xe = Idle /\ pe = Idle /\ cl = Idle
  /\ jc = Idle /\ je = Idle /\ ju = Idle /\ sj = Idle /\ xn = Idle /\ tq = Idle
  /\ xc = Idle /\ ao = Idle /\ yn = Idle /\ pt = Idle

\* plugin.encode(v), once more on the same value
EncodeValue ==
  /\ Len(ro.outs) < 2
  /\ ro' = [pc |-> "encoded", given |-> ro.given, in |-> encodeInput(ro.in),
            outs |-> Append(ro.outs, pluginEncode(ro.in))]
  /\ UNCHANGED OtherThanReadOnly

NextReadOnly == EncodeValue

SpecReadOnly == InitReadOnly /\ [][NextReadOnly]_vars

MaxAliasPairs == 2
MaxAliasOps == 2

OtherThanAliasOrder == <<heap, ct, nOps, det, uw, js, ini, ym, ya, dg, jp, fm, yh, md, xe, pe, cl, jc, je, ju, sj, xn, tq, xc, ro, yn, pt>>

InitAliasOrder ==
  /\ \E d \in AnchorDocs(MaxAliasPairs) :
       ao = [pc |-> "value", src |-> d, v |-> yamlDecodeAnchors(d), n |-> 0, doc |-> <<>>]
  /\ heap = Idle /\ ct = Idle /\ nOps = Idle /\ det = Idle /\ uw = Idle
  /\ js = Idle /\ ini = Idle /\ ym = Idle /\ ya = Idle /\ dg = Idle /\ jp = Idle
  /\ fm = Idle /\ yh = Idle /\ md = Idle /\ xe = Idle /\ pe = Idle /\ cl = Idle
  /\ jc = Idle /\ je = Idle /\ ju = Idle /\ sj = Idle /\ xn = Idle /\ tq = Idle
  /\ xc = Idle /\ ro = Idle /\ yn = Idle /\ pt = Idle

AliasWithout(s, i) == SubSeq(s, 1, i - 1) \o SubSeq(s, i + 1, Len(s))
AliasSwapped(s, i) == [j \in 1..Len(s) |-> IF j = i THEN s[i + 1] ELSE IF j = i + 1 THEN s[i] ELSE s[j]]

\* delete v[key]: the slot goes, the anchor map is not touched
AliasDeleteSlot ==
  /\ ao.pc = "value" /\ ao.n < MaxAliasOps
  /\ \E i \in 1..Len(ao.v.keys) :
       ao' = [ao EXCEPT !.n = @ + 1,
                        !.v.keys = AliasWithout(@, i), !.v.vals = AliasWithout(@, i)]
  /\ UNCHANGED OtherThanAliasOrder

\* two slots next to each other change places (the key deleted and set
\* again after the other)
AliasReorder ==
  /\ ao.pc = "value" /\ ao.n < MaxAliasOps
  /\ \E i \in 1..Len(ao.v.keys) - 1 :
       ao' = [ao EXCEPT !.n = @ + 1,
                        !.v.keys = AliasSwapped(@, i), !.v.vals = AliasSwapped(@, i)]
  /\ UNCHANGED OtherThanAliasOrder

\* setAnchor(v, key, {anchor: name}) or setAnchor(v, key, {alias: name})
AliasSetAnchor ==
  /\ ao.pc = "value" /\ ao.n < MaxAliasOps
  /\ \E i \in 1..Len(ao.v.keys), name \in YamlAnchorNames, field \in {"anchor", "alias"} :
       ao' = [ao EXCEPT !.n = @ + 1,
                        !.v = AnchorSet(@, ao.v.keys[i],
                                        [[anchor |-> Undef, alias |-> Undef] EXCEPT ![field] = name])]
  /\ UNCHANGED OtherThanAliasOrder

\* YamlPlugin.encode: the Document after applyAnchorsToNode; doc.toString()
\* prints it, or throws on an alias with no anchor before it.
AliasEncode ==
  /\ ao.pc = "value"
  /\ \E thrown \in BOOLEAN :
       /\ thrown => ~AliasesResolve(applyAnchorsToNode(ao.v), 1, {}).ok
       /\ ao' = [ao EXCEPT !.pc = IF thrown THEN "encode threw" ELSE "encoded",
                           !.doc = applyAnchorsToNode(ao.v)]
  /\ UNCHANGED OtherThanAliasOrder

NextAliasOrder ==
  \/ AliasDeleteSlot
  \/ AliasReorder
  \/ AliasSetAnchor
  \/ AliasEncode

SpecAliasOrder == InitAliasOrder /\ [][NextAliasOrder]_vars

\* C28: the Document that encode builds has, before every alias, a node
\* that carries the anchor of its name.
C28_AliasAfterAnchor ==
  ao.pc # "value" => AliasesResolve(ao.doc, 1, {}).ok

(***************************************************************************)
(* 26. YAML: encode of what decode returned                                *)
(***************************************************************************)

MaxRoundDocs == 2

\* A YAML text: its documents, each the null document, a scalar, a map or a
\* sequence, the last two in block style or written as JSON; a text of no
\* document is empty or holds comments only.
RoundForms ==
  {[kind |-> k, json |-> FALSE] : k \in {"null", "scalar", "map", "seq"}}
    \cup {[kind |-> k, json |-> TRUE] : k \in {"map", "seq"}}
RoundTexts(maxDocs) ==
  {[docs |-> <<>>, commentOnly |-> c] : c \in BOOLEAN}
    \cup {[docs |-> d, commentOnly |-> FALSE] : d \in UNION {[1..n -> RoundForms] : n \in 1..maxDocs}}

\* typeof JSON.parse(input) === "object" && parsedAsJson !== null
RoundIsJsonObject(text) == Len(text.docs) = 1 /\ text.docs[1].json

\* YamlPlugin.decode (lines 473-510) and unwrapParsedData([parsed]): the
\* value is one document, or the array of the documents with MULTI_DOC.
roundDecode(text) ==
  IF RoundIsJsonObject(text) THEN [threw |-> TRUE, array |-> FALSE, marker |-> FALSE, docs |-> <<>>]
  ELSE LET docs == IF Len(text.docs) > 0
                   THEN [i \in 1..Len(text.docs) |-> text.docs[i].kind]
                   ELSE <<"null">>
           pd == ParsedData(docs, TRUE, Len(docs) > 1)
       IN  [threw |-> FALSE, array |-> unwrapParsedData(pd).array,
            marker |-> Len(docs) > 1, docs |-> unwrapParsedData(pd).docs]

\* (data as any)[MULTI_DOC] (line 513): reading a property of null throws
roundReadsMarker(v) ==
  IF ~v.array /\ v.docs[1] = "null" THEN "TypeError" ELSE IF v.array /\ v.marker THEN "true" ELSE "undefined"

\* YamlPlugin.encode (lines 512-533): the text printed
roundEncode(v) ==
  IF roundReadsMarker(v) = "TypeError" THEN [threw |-> TRUE, text |-> [docs |-> <<>>, commentOnly |-> FALSE]]
  ELSE IF roundReadsMarker(v) = "true"
  THEN [threw |-> FALSE,
        text |-> [docs |-> [i \in 1..Len(v.docs) |-> [kind |-> v.docs[i], json |-> FALSE]],
                  commentOnly |-> FALSE]]
  ELSE [threw |-> FALSE,
        text |-> [docs |-> <<[kind |-> IF v.array THEN "seq" ELSE v.docs[1], json |-> FALSE]>>,
                  commentOnly |-> FALSE]]

OtherThanYamlRound == <<heap, ct, nOps, det, uw, js, ini, ym, ya, dg, jp, fm, yh, md, xe, pe, cl, jc, je, ju, sj, xn, tq, xc, ro, ao, pt>>

InitYamlRound ==
  /\ \E t \in RoundTexts(MaxRoundDocs) : yn = [pc |-> "text", text |-> t]
  /\ heap = Idle /\ ct = Idle /\ nOps = Idle /\ det = Idle /\ uw = Idle
  /\ js = Idle /\ ini = Idle /\ ym = Idle /\ ya = Idle /\ dg = Idle /\ jp = Idle
  /\ fm = Idle /\ yh = Idle /\ md = Idle /\ xe = Idle /\ pe = Idle /\ cl = Idle
  /\ jc = Idle /\ je = Idle /\ ju = Idle /\ sj = Idle /\ xn = Idle /\ tq = Idle
  /\ xc = Idle /\ ro = Idle /\ ao = Idle /\ pt = Idle

\* parse(text, "yaml"): YamlPlugin.decode and unwrapParsedData
RoundDecode ==
  /\ yn.pc = "text"
  /\ yn' = [pc |-> IF roundDecode(yn.text).threw THEN "decode threw" ELSE "decoded",
            text |-> yn.text, v |-> roundDecode(yn.text)]
  /\ UNCHANGED OtherThanYamlRound

\* encode(value, "yaml")
RoundEncode ==
  /\ yn.pc = "decoded"
  /\ yn' = [pc |-> IF roundEncode(yn.v).threw THEN "encode threw" ELSE "encoded",
            text |-> yn.text, v |-> yn.v, out |-> roundEncode(yn.v).text]
  /\ UNCHANGED OtherThanYamlRound

\* parse(output, "yaml")
RoundDecodeAgain ==
  /\ yn.pc = "encoded"
  /\ yn' = [pc |-> IF roundDecode(yn.out).threw THEN "second decode threw" ELSE "done",
            text |-> yn.text, v |-> yn.v, out |-> yn.out, v2 |-> roundDecode(yn.out)]
  /\ UNCHANGED OtherThanYamlRound

NextYamlRound ==
  \/ RoundDecode
  \/ RoundEncode
  \/ RoundDecodeAgain

SpecYamlRound == InitYamlRound /\ [][NextYamlRound]_vars

\* C29: encode succeeds on every value a successful decode returned, the
\* null document and scalar roots included, and the decode of its output
\* is that value.
C29_EncodeOfDecoded ==
  /\ yn.pc \notin {"encode threw", "second decode threw"}
  /\ yn.pc = "done" => yn.v2 = yn.v

(***************************************************************************)
(* 27. Methods of a primitive read through a proxy: replExtensions.ts      *)
(***************************************************************************)

\* Tracked property reads between reading the primitive and calling its
\* method (the call's argument included), and statements of one script.
MaxReadsBetween == 2
MaxPrimitiveCalls == 2

PrimitiveMethods == {"comment", "commentAfter", "anchor", "alias"}

\* getComment(parent, key) ?? {}
ExistingComment(h, p, k) ==
  IF hasComment(h, p, k) THEN getComment(h, p, k) ELSE [before |-> Undef, after |-> Undef]

\* _primitiveComment, _primitiveCommentAfter, _primitiveAnchor and
\* _primitiveAlias called with one argument: each reads _ct when it is called.
primitiveMethod(h, tracker, method, text) ==
  IF tracker.parent = Undef \/ tracker.key = Undef THEN h
  ELSE IF method = "comment"
  THEN setComment(h, tracker.parent, tracker.key,
                  [ExistingComment(h, tracker.parent, tracker.key) EXCEPT !.before = text])
  ELSE IF method = "commentAfter"
  THEN setComment(h, tracker.parent, tracker.key,
                  [ExistingComment(h, tracker.parent, tracker.key) EXCEPT !.after = text])
  ELSE IF method = "anchor"
  THEN trackedAnchor(h, tracker.parent, tracker.key, text)
  ELSE trackedAlias(h, tracker.parent, tracker.key, text)

OtherThanPrimitive == <<heap, ct, nOps, det, uw, js, ini, ym, ya, dg, jp, fm, yh, md, xe, pe, cl, jc, je, ju, sj, xn, tq, xc, ro, ao, yn>>

InitPrimitive ==
  /\ pt = [pc |-> "start", heap |-> InitHeap, tracker |-> NoTracker, from |-> NoTracker,
           reads |-> 0, calls |-> 0, before |-> InitHeap, method |-> Undef, text |-> Undef]
  /\ heap = Idle /\ ct = Idle /\ nOps = Idle
  /\ det = Idle /\ uw = Idle /\ js = Idle /\ ini = Idle /\ ym = Idle /\ ya = Idle
  /\ dg = Idle /\ jp = Idle /\ fm = Idle /\ yh = Idle /\ md = Idle /\ xe = Idle
  /\ pe = Idle /\ cl = Idle /\ jc = Idle /\ je = Idle /\ ju = Idle /\ sj = Idle
  /\ xn = Idle /\ tq = Idle /\ xc = Idle /\ ro = Idle /\ ao = Idle /\ yn = Idle

\* p.k read through the proxy of p, the value a primitive: the get trap
\* records (p, k) in _ct and returns the value unwrapped.
ReadPrimitive ==
  /\ pt.pc \in {"start", "called"}
  /\ pt.calls < MaxPrimitiveCalls
  /\ \E o \in ObjIds : \E i \in 1..Len(pt.heap[o]) :
       /\ ~pt.heap[o][i].symbol /\ pt.heap[o][i].value \notin ObjIds
       /\ pt' = [pt EXCEPT !.pc = "held",
                           !.tracker = [parent |-> o, key |-> pt.heap[o][i].key],
                           !.from = [parent |-> o, key |-> pt.heap[o][i].key],
                           !.reads = 0, !.method = Undef, !.text = Undef]
  /\ UNCHANGED OtherThanPrimitive

\* Any other string-keyed read through a proxy while the primitive is held.
ReadBetween ==
  /\ pt.pc = "held"
  /\ pt.reads < MaxReadsBetween
  /\ \E o \in ObjIds : \E i \in 1..Len(pt.heap[o]) :
       /\ ~pt.heap[o][i].symbol
       /\ pt' = [pt EXCEPT !.tracker = [parent |-> o, key |-> pt.heap[o][i].key],
                           !.reads = @ + 1]
  /\ UNCHANGED OtherThanPrimitive

\* The method call on the held primitive.
CallPrimitive ==
  /\ pt.pc = "held"
  /\ \E method \in PrimitiveMethods :
       \E text \in (IF method \in {"comment", "commentAfter"} THEN CommentTexts ELSE AnchorNames) :
         pt' = [pt EXCEPT !.pc = "called", !.before = pt.heap,
                          !.heap = primitiveMethod(pt.heap, pt.tracker, method, text),
                          !.calls = @ + 1, !.method = method, !.text = text]
  /\ UNCHANGED OtherThanPrimitive

NextPrimitive == ReadPrimitive \/ ReadBetween \/ CallPrimitive

SpecPrimitive == InitPrimitive /\ [][NextPrimitive]_vars

\* The string keys a slot of an object of the heap can have.
PrimitiveSlotKeys(h, o) == {h[o][i].key : i \in {j \in 1..Len(h[o]) : ~h[o][j].symbol}}

\* The metadata of slot (o, k): its comment entry and its anchor entry.
SlotMeta(h, o, k) == <<ExistingComment(h, o, k), ExistingAnchor(h, o, k)>>

\* Whether the call's text stands in the field of slot (o, k) its method writes.
SlotWritten(h, o, k, method, text) ==
  IF method = "comment" THEN ExistingComment(h, o, k).before = text
  ELSE IF method = "commentAfter" THEN ExistingComment(h, o, k).after = text
  ELSE IF method = "anchor" THEN ExistingAnchor(h, o, k).anchor = text
  ELSE ExistingAnchor(h, o, k).alias = text

\* C30: a .comment(text), .commentAfter(text), .anchor(name) or .alias(name)
\* call on a primitive read from property k of tracked container p writes the
\* metadata of slot (p, k) and leaves the metadata of every other slot as it
\* was, whichever tracked properties were read in between.
C30_PrimitiveWritesItsSlot ==
  pt.pc = "called" =>
    /\ SlotWritten(pt.heap, pt.from.parent, pt.from.key, pt.method, pt.text)
    /\ \A o \in ObjIds : \A k \in PrimitiveSlotKeys(pt.heap, o) :
         (o # pt.from.parent \/ k # pt.from.key)
           => SlotMeta(pt.heap, o, k) = SlotMeta(pt.before, o, k)

====
